---- MODULE Spec2Model ----
(***************************************************************************)
(* Model of the ImageAligner component (src/unnamed/part_000): the layer   *)
(* store, the bounded undo history, the pointer gesture state machine, the *)
(* reference-point wizard and the alignment solver.                        *)
(*                                                                         *)
(* Numbers.  The component computes with JavaScript numbers.  The model    *)
(* computes with exact rationals, a pair <<n, d>> with d > 0 in lowest     *)
(* terms, so that two numbers are equal exactly when their pairs are.      *)
(* Rounding of IEEE doubles is therefore not modelled.  A division by zero *)
(* is modelled at the two places of the code where the divisor can be zero *)
(* (see RatioGt and ProportionMismatch); a zero is taken as +0.            *)
(*                                                                         *)
(* Rendering.  Every handler runs to completion and React re-renders       *)
(* before the next event is delivered, so a handler always sees the        *)
(* current state and layersRef.current equals layers at handler entry.     *)
(* The callbacks that run later (image onload, the runLayout animation     *)
(* frame) are separate actions.                                            *)
(***************************************************************************)
EXTENDS Integers, Sequences, FiniteSets, TLC

----------------------------------------------------------------------------
(* Exact rational arithmetic standing for JavaScript numbers.              *)

RECURSIVE GCD(_, _)
GCD(a, b) == IF b = 0 THEN a ELSE GCD(b, a % b)

IAbs(n) == IF n < 0 THEN 0 - n ELSE n

Q(n, d) ==
  LET s == IF d < 0 THEN 0 - 1 ELSE 1
      g == GCD(IAbs(n), IAbs(d))
  IN  <<(s * n) \div g, (s * d) \div g>>

Zero == <<0, 1>>
One == <<1, 1>>
Two == <<2, 1>>

RAdd(a, b) == Q(a[1] * b[2] + b[1] * a[2], a[2] * b[2])
RSub(a, b) == Q(a[1] * b[2] - b[1] * a[2], a[2] * b[2])
RMul(a, b) == Q(a[1] * b[1], a[2] * b[2])
RDiv(a, b) == Q(a[1] * b[2], a[2] * b[1])
RLt(a, b) == a[1] * b[2] < b[1] * a[2]
RGt(a, b) == RLt(b, a)
RLe(a, b) == ~RLt(b, a)
RGe(a, b) == ~RLt(a, b)
RAbs(a) == <<IAbs(a[1]), a[2]>>
RMax(a, b) == IF RLt(a, b) THEN b ELSE a
RMin(a, b) == IF RLt(b, a) THEN b ELSE a
RHalf(a) == RDiv(a, Two)

(* width / height > R as JavaScript evaluates it: x / 0 is +Infinity for   *)
(* x > 0 and NaN or -Infinity otherwise, and only +Infinity exceeds R.     *)
RatioGt(width, height, R) ==
  IF height = Zero THEN RGt(width, Zero) ELSE RGt(RDiv(width, height), R)

----------------------------------------------------------------------------
(* Program constants.                                                      *)

MAX_HISTORY == 50
minSize == <<50, 1>>
DegenerateSpan == <<1, 100>>
ProportionTolerance == <<15, 100>>
PositionFactor == <<1, 5>>
PositionCap == <<50, 1>>
LayoutFraction == <<4, 5>>
SnapThreshold == <<1, 50>>

RESIZE_HANDLES == {"n", "s", "e", "w", "nw", "ne", "sw", "se"}
HasN(h) == h \in {"n", "nw", "ne"}
HasS(h) == h \in {"s", "sw", "se"}
HasE(h) == h \in {"e", "ne", "se"}
HasW(h) == h \in {"w", "nw", "sw"}
IsCorner(h) == h \in {"nw", "ne", "sw", "se"}

GuideNames == {"h1", "h2", "h3", "v1", "v2"}

Null == "null"
NoRefs == [absent |-> TRUE]
NoId == <<>>
NoPending == <<>>
NoWarning == <<>>

defaultRefs ==
  [bodyTopY |-> <<1, 5>>, faceBottomY |-> <<1, 2>>, bodyBottomY |-> <<4, 5>>,
   eyeLeftX |-> <<7, 20>>, eyeLeftY |-> <<9, 20>>,
   eyeRightX |-> <<13, 20>>, eyeRightY |-> <<9, 20>>]

RefsOf(layer) == IF layer.refs = NoRefs THEN defaultRefs ELSE layer.refs

----------------------------------------------------------------------------
(* Coordinate mapper.                                                      *)

\* A mapper that places the image at the left and top edge of the box.
imageToCanvasNoInset(layer, u, v) ==
  LET R == layer.aspectRatio
  IN  IF RatioGt(layer.width, layer.height, R)
      THEN LET imgW == RMul(layer.height, R)
           IN  [x |-> RAdd(layer.x, RMul(u, imgW)),
                y |-> RAdd(layer.y, RMul(v, layer.height))]
      ELSE LET imgH == RDiv(layer.width, R)
           IN  [x |-> RAdd(layer.x, RMul(u, layer.width)),
                y |-> RAdd(layer.y, RMul(v, imgH))]

imageToCanvas(layer, u, v) ==
  LET R == layer.aspectRatio
  IN  IF RatioGt(layer.width, layer.height, R)
      THEN LET imgW == RMul(layer.height, R)
               left == RHalf(RSub(layer.width, imgW))
           IN  [x |-> RAdd(RAdd(layer.x, left), RMul(u, imgW)),
                y |-> RAdd(layer.y, RMul(v, layer.height))]
      ELSE LET imgH == RDiv(layer.width, R)
               top == RHalf(RSub(layer.height, imgH))
           IN  [x |-> RAdd(layer.x, RMul(u, layer.width)),
                y |-> RAdd(RAdd(layer.y, top), RMul(v, imgH))]

----------------------------------------------------------------------------
(* Environment: the canvas rectangle, the files the user can add, the      *)
(* intrinsic ratios the images can decode to, and the pointer positions.   *)

MaxLayers == 2
MaxClock == 1
MaxOps == 3

Canvas == [left |-> 0, top |-> 100, width |-> 1000, height |-> 500]
CanvasW == <<Canvas.width, 1>>
CanvasH == <<Canvas.height, 1>>

FileNames == {"a.png"}
ImageRatios == {<<2, 1>>, <<1, 2>>}
MovePoints == {<<0, 100>>, <<600, 400>>}
PickPoints == {<<<<1, 2>>, <<1, 2>>>>, <<<<1, 4>>, <<1, 5>>>>}

Clamp01(v) == RMax(Zero, RMin(One, v))

----------------------------------------------------------------------------
(* State.                                                                  *)

VARIABLES
  layers,               \* useState layers: sequence of ImageLayer
  selectedId,           \* useState selectedId: an id or NoId
  history,              \* historyRef.current: sequence of snapshots
  canUndo,              \* useState canUndo
  pendingUndoState,     \* pendingUndoStateRef.current: NoPending or <<snapshot>>
  isDragging,           \* useState isDragging
  isResizing,           \* useState isResizing
  resizeHandle,         \* useState resizeHandle: a handle or Null
  dragOffset,           \* dragOffset.current
  resizeStart,          \* resizeStart.current
  draggingGuide,        \* useState draggingGuide: a guide name or Null
  guides,               \* guideH1, guideH2, guideH3, guideV1, guideV2
  snapToLayerCenters,   \* useState snapToLayerCenters
  guideLinesLocked,     \* useState guideLinesLocked
  alignModalOpen,       \* useState alignModalOpen
  alignModalLayerIndex, \* useState alignModalLayerIndex (0-based)
  alignModalStep,       \* useState alignModalStep
  alignWarning,         \* useState alignWarning: NoWarning or the flagged layer numbers
  prevLayerCount,       \* prevLayerCountRef.current
  layoutPending,        \* runLayout callbacks scheduled and not yet run
  decodePending,        \* sequence of the ids whose image onload has not fired yet
  clock,                \* the last value Date.now() returned
  ops,                  \* number of user events still to be delivered
  gestureStart,         \* history variable: layers at the last pointer-down
  preMutation,          \* history variable: layers before the last committed mutation
  lastUserOp,           \* history variable: kind of the last user event
  wizardLog             \* history variable: the wizard position before the last user
                        \* event, and the picks made in a row since the wizard opened

storeVars == <<layers, selectedId, history, canUndo>>
gestureVars == <<pendingUndoState, isDragging, isResizing, resizeHandle,
                 dragOffset, resizeStart, draggingGuide>>
guideVars == <<guides, snapToLayerCenters, guideLinesLocked>>
wizardVars == <<alignModalOpen, alignModalLayerIndex, alignModalStep, alignWarning>>
asyncVars == <<prevLayerCount, layoutPending, decodePending, clock>>
ghostVars == <<gestureStart, preMutation, lastUserOp, wizardLog>>
vars == <<storeVars, gestureVars, guideVars, wizardVars, asyncVars, ops, ghostVars>>

EmptyLayers == <<>>
NoLog == [from |-> <<0, 0>>, run |-> FALSE, picks |-> <<>>]

\* The state of a component that holds no gesture and shows no wizard.
InitIdle ==
  /\ pendingUndoState = NoPending
  /\ isDragging = FALSE
  /\ isResizing = FALSE
  /\ resizeHandle = Null
  /\ draggingGuide = Null
  /\ guides = [h1 |-> <<1, 5>>, h2 |-> <<1, 2>>, h3 |-> <<4, 5>>,
               v1 |-> <<33, 100>>, v2 |-> <<67, 100>>]
  /\ snapToLayerCenters = TRUE
  /\ guideLinesLocked = FALSE
  /\ alignWarning = NoWarning

NoStart == [mouseX |-> Zero, mouseY |-> Zero, width |-> Zero,
            height |-> Zero, x |-> Zero, y |-> Zero]

\* The state after construction, lines 105-146.
Init ==
  /\ layers = EmptyLayers
  /\ selectedId = NoId
  /\ history = <<>>
  /\ canUndo = FALSE
  /\ InitIdle
  /\ dragOffset = [x |-> Zero, y |-> Zero]
  /\ resizeStart = NoStart
  /\ alignModalOpen = FALSE
  /\ alignModalLayerIndex = 0
  /\ alignModalStep = 0
  /\ prevLayerCount = 0
  /\ layoutPending = 0
  /\ decodePending = <<>>
  /\ clock = 0
  /\ ops = MaxOps
  /\ gestureStart = EmptyLayers
  /\ preMutation = EmptyLayers
  /\ lastUserOp = [name |-> "none", committed |-> FALSE, undid |-> "none"]
  /\ wizardLog = NoLog

----------------------------------------------------------------------------
(* Helpers shared by the handlers.                                         *)

Indices == 0 .. (Len(layers) - 1)
At(ls, i) == ls[i + 1]
LayerIds(ls) == {ls[k].id : k \in 1 .. Len(ls)}
MapLayers(ls, F(_, _)) == [k \in 1 .. Len(ls) |-> F(ls[k], k - 1)]

\* The wizard modal and its full-screen overlay are rendered (lines 1234-1246):
\* while they are, pointer events reach the wizard only.
ModalShown ==
  alignModalOpen /\ Len(layers) > 0 /\ alignModalLayerIndex < Len(layers)

\* One user event is delivered.
UserEvent == ops > 0 /\ ops' = ops - 1

\* pushHistory, lines 154-165: the copy it pushes.
SnapshotOf(ls) ==
  [k \in 1 .. Len(ls) |-> [ls[k] EXCEPT !.visible = (ls[k].visible # FALSE)]]

\* A push that never discards the oldest snapshot.
PushOfUnbounded(h, state) == Append(h, state)

\* A push that, at the capacity, gives up the newest earlier snapshot.
PushOfDropNewest(h, state) ==
  IF Len(h) >= MAX_HISTORY THEN Append(SubSeq(h, 1, Len(h) - 1), state)
  ELSE Append(h, state)

\* historyRef.current.push(state) followed by the shift at the capacity.
PushOf(h, state) ==
  LET pushed == Append(h, state)
  IN  IF Len(pushed) > MAX_HISTORY THEN Tail(pushed) ELSE pushed

pushHistory ==
  /\ history' = PushOf(history, SnapshotOf(layers))
  /\ canUndo' = TRUE

\* The effect on [n], lines 196-226, run after a render that changed layers.
LayoutEffect(newLayers) ==
  LET n == Len(newLayers)
  IN  IF n = Len(layers)
      THEN UNCHANGED <<prevLayerCount, layoutPending>>
      ELSE /\ prevLayerCount' = n
           /\ layoutPending' =
                IF n # 0 /\ n > prevLayerCount THEN layoutPending + 1 ELSE layoutPending

SetLayers(newLayers) ==
  /\ layers' = newLayers
  /\ LayoutEffect(newLayers)

\* History variables: a handler committed a mutation of the sequence pre, or
\* ran without committing one.
Logged(run, picks) ==
  wizardLog' = [from |-> <<alignModalLayerIndex, alignModalStep>>,
                run |-> run, picks |-> picks]

Mutated(name, pre) ==
  /\ preMutation' = pre
  /\ lastUserOp' = [name |-> name, committed |-> TRUE, undid |-> "none"]
  /\ Logged(FALSE, <<>>)

Did(name) ==
  /\ preMutation' = preMutation
  /\ lastUserOp' = [name |-> name, committed |-> FALSE, undid |-> "none"]
  /\ Logged(FALSE, <<>>)

\* The wizard was opened, and a pick was made at the clamped point p.
DidOpen ==
  /\ preMutation' = preMutation
  /\ lastUserOp' = [name |-> "handleAutoAlignClick", committed |-> FALSE, undid |-> "none"]
  /\ Logged(TRUE, <<>>)

DidPick(p) ==
  /\ preMutation' = preMutation
  /\ lastUserOp' = [name |-> "handleAlignModalCanvasClick", committed |-> FALSE,
                    undid |-> "none"]
  /\ Logged(wizardLog.run, IF wizardLog.run THEN Append(wizardLog.picks, p) ELSE <<>>)

----------------------------------------------------------------------------
(* Layer store: structural edits.                                          *)

\* addImages, lines 234-279.  files is the sequence of the accepted files'
\* names (the filter of line 235 has been applied), now is Date.now().
NewLayer(now, i, name) ==
  [id |-> <<now, i, name>>,
   x |-> <<100 + i * 40, 1>>, y |-> <<100 + i * 40, 1>>,
   width |-> <<300, 1>>, height |-> <<200, 1>>,
   aspectRatio |-> One, visible |-> TRUE, refs |-> NoRefs]

NewLayers(now, files) == [k \in 1 .. Len(files) |-> NewLayer(now, k - 1, files[k])]

\* An add that checkpoints the sequence with the new layers in it.
addImagesLatePush(now, files) ==
  /\ UserEvent
  /\ clock' = now
  /\ IF Len(files) = 0
     THEN /\ UNCHANGED <<storeVars, prevLayerCount, layoutPending, decodePending>>
          /\ Did("addImages")
     ELSE LET newLayers == NewLayers(now, files)
          IN  /\ history' = PushOf(history, SnapshotOf(layers \o newLayers))
              /\ canUndo' = TRUE
              /\ SetLayers(layers \o newLayers)
              /\ decodePending' = decodePending \o [k \in 1 .. Len(files) |-> newLayers[k].id]
              /\ UNCHANGED selectedId
              /\ Mutated("addImages", layers)
  /\ UNCHANGED <<gestureVars, guideVars, wizardVars, gestureStart>>

addImages(now, files) ==
  /\ UserEvent
  /\ clock' = now
  /\ IF Len(files) = 0
     THEN /\ UNCHANGED <<storeVars, prevLayerCount, layoutPending, decodePending>>
          /\ Did("addImages")
     ELSE LET newLayers == NewLayers(now, files)
          IN  /\ pushHistory
              /\ SetLayers(layers \o newLayers)
              /\ decodePending' = decodePending \o [k \in 1 .. Len(files) |-> newLayers[k].id]
              /\ UNCHANGED selectedId
              /\ Mutated("addImages", layers)
  /\ UNCHANGED <<gestureVars, guideVars, wizardVars, gestureStart>>

\* A decode correction that keeps the height of a new layer, 200.
DecodedLayerNewHeight(ll, aspectRatio) ==
  LET height == <<200, 1>>
      width == RMul(height, aspectRatio)
  IN  [ll EXCEPT !.aspectRatio = aspectRatio, !.width = width, !.height = height,
                 !.x = RHalf(RSub(CanvasW, width)),
                 !.y = RHalf(RSub(CanvasH, height))]

\* img.onload, lines 260-274: the image of the k-th pending id has decoded
\* with intrinsic ratio img.width / img.height.
DecodedLayer(ll, aspectRatio) ==
  LET height == ll.height
      width == RMul(height, aspectRatio)
  IN  [ll EXCEPT !.aspectRatio = aspectRatio, !.width = width, !.height = height,
                 !.x = RHalf(RSub(CanvasW, width)),
                 !.y = RHalf(RSub(CanvasH, height))]

RemoveAt(seq, k) == SubSeq(seq, 1, k - 1) \o SubSeq(seq, k + 1, Len(seq))

onload(k, aspectRatio) ==
  LET id == decodePending[k]
      F(ll, i) == IF ll.id # id THEN ll ELSE DecodedLayer(ll, aspectRatio)
      newLayers == MapLayers(layers, F)
  IN  /\ decodePending' = RemoveAt(decodePending, k)
      /\ SetLayers(newLayers)
      /\ lastUserOp' = IF newLayers = layers THEN lastUserOp
                       ELSE [name |-> "onload", committed |-> FALSE, undid |-> "none"]
      /\ wizardLog' = wizardLog
      /\ UNCHANGED <<selectedId, history, canUndo, gestureVars, guideVars, wizardVars,
                     clock, ops, gestureStart, preMutation>>

\* runLayout, lines 207-223, the callback of the second animation frame.
LaidOut(layer) ==
  LET targetHeight == RMul(CanvasH, LayoutFraction)
      width == RMul(targetHeight, layer.aspectRatio)
  IN  [layer EXCEPT !.x = RHalf(RSub(CanvasW, width)),
                    !.y = RHalf(RSub(CanvasH, targetHeight)),
                    !.width = width, !.height = targetHeight]

runLayout ==
  LET F(layer, i) == LaidOut(layer)
  IN  /\ layoutPending > 0
      /\ layers' = MapLayers(layers, F)
      /\ layoutPending' = layoutPending - 1
      /\ UNCHANGED <<selectedId, history, canUndo, gestureVars, guideVars, wizardVars,
                     prevLayerCount, decodePending, clock, ops, ghostVars>>

\* An undo that, finding nothing to pop, checkpoints the sequence instead.
undoSwapping ==
  /\ UserEvent
  /\ IF Len(history) = 0
     THEN /\ history' = <<SnapshotOf(layers)>>
          /\ canUndo' = TRUE
          /\ UNCHANGED <<layers, prevLayerCount, layoutPending>>
          /\ Did("undo")
     ELSE LET prev == history[Len(history)]
          IN  /\ history' = SubSeq(history, 1, Len(history) - 1)
              /\ SetLayers(prev)
              /\ canUndo' = (Len(history') > 0)
              /\ preMutation' = preMutation
              /\ lastUserOp' = [name |-> "undo", committed |-> FALSE,
                                undid |-> IF lastUserOp.committed THEN lastUserOp.name
                                          ELSE "none"]
              /\ Logged(FALSE, <<>>)
  /\ UNCHANGED <<selectedId, gestureVars, guideVars, wizardVars, decodePending, clock,
                 gestureStart>>

\* An undo that reports whether there was something to undo before it popped.
undoStaleFlag ==
  /\ UserEvent
  /\ IF Len(history) = 0
     THEN /\ UNCHANGED <<layers, history, canUndo, prevLayerCount, layoutPending>>
          /\ Did("undo")
     ELSE LET prev == history[Len(history)]
          IN  /\ history' = SubSeq(history, 1, Len(history) - 1)
              /\ SetLayers(prev)
              /\ canUndo' = (Len(history) > 0)
              /\ preMutation' = preMutation
              /\ lastUserOp' = [name |-> "undo", committed |-> FALSE,
                                undid |-> IF lastUserOp.committed THEN lastUserOp.name
                                          ELSE "none"]
              /\ Logged(FALSE, <<>>)
  /\ UNCHANGED <<selectedId, gestureVars, guideVars, wizardVars, decodePending, clock,
                 gestureStart>>

\* undo, lines 167-172 (the Undo button and Ctrl/Cmd+Z, lines 174-183).
undo ==
  /\ UserEvent
  /\ IF Len(history) = 0
     THEN /\ UNCHANGED <<layers, history, canUndo, prevLayerCount, layoutPending>>
          /\ Did("undo")
     ELSE LET prev == history[Len(history)]
          IN  /\ history' = SubSeq(history, 1, Len(history) - 1)
              /\ SetLayers(prev)
              /\ canUndo' = (Len(history') > 0)
              /\ preMutation' = preMutation
              /\ lastUserOp' = [name |-> "undo", committed |-> FALSE,
                                undid |-> IF lastUserOp.committed THEN lastUserOp.name
                                          ELSE "none"]
              /\ Logged(FALSE, <<>>)
  /\ UNCHANGED <<selectedId, gestureVars, guideVars, wizardVars, decodePending, clock,
                 gestureStart>>

\* handleMoveLayer, lines 304-313.
Swapped(ls, index, newIndex) ==
  [ls EXCEPT ![index + 1] = ls[newIndex + 1], ![newIndex + 1] = ls[index + 1]]

handleMoveLayer(index, direction) ==
  LET newIndex == IF direction = "up" THEN index + 1 ELSE index - 1
  IN  /\ UserEvent
      /\ IF newIndex < 0 \/ newIndex >= Len(layers)
         THEN UNCHANGED <<layers, history, canUndo>> /\ Did("handleMoveLayer")
         ELSE /\ pushHistory
              /\ layers' = Swapped(layers, index, newIndex)
              /\ Mutated("handleMoveLayer", layers)
      /\ UNCHANGED <<selectedId, gestureVars, guideVars, wizardVars, asyncVars,
                     gestureStart>>

\* A reorder that writes the moved layer over the layer at toIndex.
ReorderedOverwriting(ls, fromIndex, toIndex) ==
  [ls EXCEPT ![toIndex + 1] = ls[fromIndex + 1]]

\* handleLayerReorder, lines 315-324: splice out at fromIndex, splice in at toIndex.
Reordered(ls, fromIndex, toIndex) ==
  LET removed == ls[fromIndex + 1]
      rest == RemoveAt(ls, fromIndex + 1)
  IN  SubSeq(rest, 1, toIndex) \o <<removed>> \o SubSeq(rest, toIndex + 1, Len(rest))

handleLayerReorder(fromIndex, toIndex) ==
  IF fromIndex = toIndex
  THEN UNCHANGED <<layers, history, canUndo>> /\ Did("handleLayerDrop")
  ELSE /\ pushHistory
       /\ layers' = Reordered(layers, fromIndex, toIndex)
       /\ Mutated("handleLayerDrop", layers)

\* layers.findIndex((l) => l.id === layerId), or -1.
FindIndex(ls, id) ==
  IF id \in LayerIds(ls)
  THEN (CHOOSE k \in 1 .. Len(ls) : ls[k].id = id /\ \A j \in 1 .. (k - 1) : ls[j].id # id) - 1
  ELSE 0 - 1

\* handleLayerDrop, lines 342-353: the panel row of layerId is dropped on the
\* row at targetIndex.
handleLayerDrop(layerId, targetIndex) ==
  /\ UserEvent
  /\ IF layerId = At(layers, targetIndex).id \/ FindIndex(layers, layerId) = 0 - 1
     THEN UNCHANGED <<layers, history, canUndo>> /\ Did("handleLayerDrop")
     ELSE handleLayerReorder(FindIndex(layers, layerId), targetIndex)
  /\ UNCHANGED <<selectedId, gestureVars, guideVars, wizardVars, asyncVars, gestureStart>>

\* handleToggleLayerVisibility, lines 355-365.
handleToggleLayerVisibility(layerId) ==
  LET F(l, i) == IF l.id = layerId THEN [l EXCEPT !.visible = (l.visible = FALSE)] ELSE l
  IN  /\ UserEvent
      /\ pushHistory
      /\ layers' = MapLayers(layers, F)
      /\ Mutated("handleToggleLayerVisibility", layers)
      /\ UNCHANGED <<selectedId, gestureVars, guideVars, wizardVars, asyncVars,
                     gestureStart>>

\* handleRemoveLayer, lines 367-372.
SelectSeqNot(ls, id) == SelectSeq(ls, LAMBDA l : l.id # id)

handleRemoveLayer ==
  /\ UserEvent
  /\ IF selectedId = NoId
     THEN /\ UNCHANGED <<storeVars, prevLayerCount, layoutPending>>
          /\ Did("handleRemoveLayer")
     ELSE /\ pushHistory
          /\ SetLayers(SelectSeqNot(layers, selectedId))
          /\ selectedId' = NoId
          /\ Mutated("handleRemoveLayer", layers)
  /\ UNCHANGED <<gestureVars, guideVars, wizardVars, decodePending, clock, gestureStart>>

\* handleCanvasClick, lines 538-540, and handleLayerPanelSelect, lines 542-548.
handleCanvasClick ==
  /\ UserEvent
  /\ selectedId' = NoId
  /\ Did("handleCanvasClick")
  /\ UNCHANGED <<layers, history, canUndo, gestureVars, guideVars, wizardVars, asyncVars,
                 gestureStart>>

handleLayerPanelSelect(id) ==
  /\ UserEvent
  /\ selectedId' = id
  /\ dragOffset' = IF id \in LayerIds(layers) THEN [x |-> Zero, y |-> Zero] ELSE dragOffset
  /\ Did("handleLayerPanelSelect")
  /\ UNCHANGED <<layers, history, canUndo, pendingUndoState, isDragging, isResizing,
                 resizeHandle, resizeStart, draggingGuide, guideVars, wizardVars,
                 asyncVars, gestureStart>>

----------------------------------------------------------------------------
(* Interaction state machine: pointer gestures on the canvas.              *)

Pt(p) == [x |-> <<p[1], 1>>, y |-> <<p[2], 1>>]

\* layers.find((l) => l.id === id)
Find(ls, id) == At(ls, FindIndex(ls, id))

\* Client position of a point given in canvas coordinates.
ClientOf(x, y) == [x |-> RAdd(x, <<Canvas.left, 1>>), y |-> RAdd(y, <<Canvas.top, 1>>)]

\* Where the pointer is when it goes down on the body of a layer (its
\* middle) and on one of its resize handles (lines 65-80).
BodyPoint(layer) ==
  ClientOf(RAdd(layer.x, RHalf(layer.width)), RAdd(layer.y, RHalf(layer.height)))

HandlePoint(layer, handle) ==
  ClientOf(IF HasW(handle) THEN layer.x
           ELSE IF HasE(handle) THEN RAdd(layer.x, layer.width)
           ELSE RAdd(layer.x, RHalf(layer.width)),
           IF HasN(handle) THEN layer.y
           ELSE IF HasS(handle) THEN RAdd(layer.y, layer.height)
           ELSE RAdd(layer.y, RHalf(layer.height)))

\* layers.map((l) => ({ ...l })), lines 392 and 409.
ShallowCopy(ls) == [k \in 1 .. Len(ls) |-> ls[k]]

\* handleGuideMouseDown, lines 374-381.
handleGuideMouseDown(guide) ==
  /\ UserEvent
  /\ draggingGuide' = IF guideLinesLocked THEN draggingGuide ELSE guide
  /\ Did("handleGuideMouseDown")
  /\ UNCHANGED <<storeVars, pendingUndoState, isDragging, isResizing, resizeHandle,
                 dragOffset, resizeStart, guideVars, wizardVars, asyncVars, gestureStart>>

\* handleLayerMouseDown, lines 383-400, with the pointer at client position e.
handleLayerMouseDown(e, id) ==
  /\ UserEvent
  /\ Did("handleLayerMouseDown")
  /\ IF alignModalOpen
     THEN UNCHANGED <<selectedId, pendingUndoState, dragOffset, isDragging, gestureStart>>
     ELSE /\ selectedId' = id
          /\ IF id \notin LayerIds(layers)
             THEN UNCHANGED <<pendingUndoState, dragOffset, isDragging, gestureStart>>
             ELSE LET layer == Find(layers, id)
                  IN  /\ pendingUndoState' = <<ShallowCopy(layers)>>
                      /\ dragOffset' = [x |-> RSub(e.x, layer.x), y |-> RSub(e.y, layer.y)]
                      /\ isDragging' = TRUE
                      /\ gestureStart' = layers
  /\ UNCHANGED <<layers, history, canUndo, isResizing, resizeHandle, resizeStart,
                 draggingGuide, guideVars, wizardVars, asyncVars>>

\* handleResizeMouseDown, lines 402-422.
handleResizeMouseDown(e, id, handle) ==
  /\ UserEvent
  /\ Did("handleResizeMouseDown")
  /\ selectedId' = id
  /\ IF id \notin LayerIds(layers)
     THEN UNCHANGED <<pendingUndoState, isResizing, resizeHandle, resizeStart, gestureStart>>
     ELSE LET layer == Find(layers, id)
          IN  /\ pendingUndoState' = <<ShallowCopy(layers)>>
              /\ isResizing' = TRUE
              /\ resizeHandle' = handle
              /\ resizeStart' = [mouseX |-> e.x, mouseY |-> e.y,
                                 width |-> layer.width, height |-> layer.height,
                                 x |-> layer.x, y |-> layer.y]
              /\ gestureStart' = layers
  /\ UNCHANGED <<layers, history, canUndo, isDragging, dragOffset, draggingGuide,
                 guideVars, wizardVars, asyncVars>>

\* snapToNearest, lines 5-18: the nearest snap, the smallest one among ties.
snapToNearest(value, snaps) ==
  IF snaps = {} THEN value
  ELSE CHOOSE s \in snaps :
         \A t \in snaps :
           LET ds == RAbs(RSub(value, s))
               dt == RAbs(RSub(value, t))
           IN  RLt(ds, dt) \/ (ds = dt /\ RLe(s, t))

\* The guide branch of handleMouseMove, lines 426-454.
GuidePosition(e) ==
  LET y0 == Clamp01(RDiv(RSub(e.y, <<Canvas.top, 1>>), CanvasH))
      x0 == Clamp01(RDiv(RSub(e.x, <<Canvas.left, 1>>), CanvasW))
      ySnaps == {RDiv(RAdd(layers[k].y, RHalf(layers[k].height)), CanvasH) : k \in 1 .. Len(layers)}
      xSnaps == {RDiv(RAdd(layers[k].x, RHalf(layers[k].width)), CanvasW) : k \in 1 .. Len(layers)}
      snappedY == snapToNearest(y0, ySnaps)
      snappedX == snapToNearest(x0, xSnaps)
      snapping == snapToLayerCenters /\ Len(layers) > 0
  IN  IF draggingGuide \in {"h1", "h2", "h3"}
      THEN IF snapping /\ RLt(RAbs(RSub(y0, snappedY)), SnapThreshold) THEN snappedY ELSE y0
      ELSE IF snapping /\ RLt(RAbs(RSub(x0, snappedX)), SnapThreshold) THEN snappedX ELSE x0

\* A resize whose corner handles move both dimensions freely.
ResizedFree(l, start, handle, e) ==
  LET dx == RSub(e.x, start.mouseX)
      dy == RSub(e.y, start.mouseY)
      width1 == IF HasW(handle) THEN RMax(minSize, RSub(start.width, dx))
                ELSE IF HasE(handle) THEN RMax(minSize, RAdd(start.width, dx))
                ELSE start.width
      x1 == IF HasW(handle) THEN RSub(RAdd(start.x, start.width), width1) ELSE start.x
      height1 == IF HasN(handle) THEN RMax(minSize, RSub(start.height, dy))
                 ELSE IF HasS(handle) THEN RMax(minSize, RAdd(start.height, dy))
                 ELSE start.height
      y1 == IF HasN(handle) THEN RSub(RAdd(start.y, start.height), height1) ELSE start.y
  IN  [l EXCEPT !.width = width1, !.height = height1, !.x = x1, !.y = y1]

\* A resize whose corner handles do not pivot again after the other
\* dimension was re-derived from the ratio.
ResizedNoPivot(l, start, handle, e) ==
  LET dx == RSub(e.x, start.mouseX)
      dy == RSub(e.y, start.mouseY)
      width1 == IF HasW(handle) THEN RMax(minSize, RSub(start.width, dx))
                ELSE IF HasE(handle) THEN RMax(minSize, RAdd(start.width, dx))
                ELSE start.width
      x1 == IF HasW(handle) THEN RSub(RAdd(start.x, start.width), width1) ELSE start.x
      height1 == IF HasN(handle) THEN RMax(minSize, RSub(start.height, dy))
                 ELSE IF HasS(handle) THEN RMax(minSize, RAdd(start.height, dy))
                 ELSE start.height
      y1 == IF HasN(handle) THEN RSub(RAdd(start.y, start.height), height1) ELSE start.y
      ratio == l.aspectRatio
      corner == IsCorner(handle)
      horizontal == HasE(handle) \/ HasW(handle)
      height2 == IF corner /\ horizontal THEN RDiv(width1, ratio) ELSE height1
      width2 == IF corner /\ ~horizontal THEN RMul(height1, ratio) ELSE width1
  IN  [l EXCEPT !.width = width2, !.height = height2, !.x = x1, !.y = y1]

\* The resize branch of handleMouseMove, lines 455-504, applied to layer l.
Resized(l, start, handle, e) ==
  LET dx == RSub(e.x, start.mouseX)
      dy == RSub(e.y, start.mouseY)
      width1 == IF HasW(handle) THEN RMax(minSize, RSub(start.width, dx))
                ELSE IF HasE(handle) THEN RMax(minSize, RAdd(start.width, dx))
                ELSE start.width
      x1 == IF HasW(handle) THEN RSub(RAdd(start.x, start.width), width1) ELSE start.x
      height1 == IF HasN(handle) THEN RMax(minSize, RSub(start.height, dy))
                 ELSE IF HasS(handle) THEN RMax(minSize, RAdd(start.height, dy))
                 ELSE start.height
      y1 == IF HasN(handle) THEN RSub(RAdd(start.y, start.height), height1) ELSE start.y
      ratio == l.aspectRatio
      corner == IsCorner(handle)
      horizontal == HasE(handle) \/ HasW(handle)
      height2 == IF corner /\ horizontal THEN RDiv(width1, ratio) ELSE height1
      y2 == IF corner /\ horizontal /\ HasN(handle)
            THEN RSub(RAdd(start.y, start.height), height2) ELSE y1
      width2 == IF corner /\ ~horizontal THEN RMul(height1, ratio) ELSE width1
      x2 == IF corner /\ ~horizontal /\ HasW(handle)
            THEN RSub(RAdd(start.x, start.width), width2) ELSE x1
  IN  [l EXCEPT !.width = width2, !.height = height2, !.x = x2, !.y = y2]

\* A move whose drag branch eases the layer halfway towards the pointer.
MovedLayersEased(ls, e) ==
  IF isResizing /\ selectedId # NoId /\ resizeHandle # Null
  THEN LET F(l, i) == IF l.id # selectedId THEN l
                      ELSE Resized(l, resizeStart, resizeHandle, e)
       IN  MapLayers(ls, F)
  ELSE IF isDragging /\ selectedId # NoId
  THEN LET F(l, i) == IF l.id = selectedId
                      THEN [l EXCEPT !.x = RHalf(RAdd(l.x, RSub(e.x, dragOffset.x))),
                                     !.y = RHalf(RAdd(l.y, RSub(e.y, dragOffset.y)))]
                      ELSE l
       IN  MapLayers(ls, F)
  ELSE ls

\* The resize and drag branches of handleMouseMove, lines 455-518: the
\* sequence the updaters of lines 461 and 507 make of the sequence ls.
MovedLayers(ls, e) ==
  IF isResizing /\ selectedId # NoId /\ resizeHandle # Null
  THEN LET F(l, i) == IF l.id # selectedId THEN l
                      ELSE Resized(l, resizeStart, resizeHandle, e)
       IN  MapLayers(ls, F)
  ELSE IF isDragging /\ selectedId # NoId
  THEN LET F(l, i) == IF l.id = selectedId
                      THEN [l EXCEPT !.x = RSub(e.x, dragOffset.x),
                                     !.y = RSub(e.y, dragOffset.y)]
                      ELSE l
       IN  MapLayers(ls, F)
  ELSE ls

\* handleMouseMove, lines 424-521, with the pointer at client position e.
handleMouseMove(e) ==
  /\ UserEvent
  /\ Did("handleMouseMove")
  /\ IF draggingGuide # Null
     THEN /\ guides' = [guides EXCEPT ![draggingGuide] = GuidePosition(e)]
          /\ UNCHANGED layers
     ELSE /\ UNCHANGED guides
          /\ layers' = MovedLayers(layers, e)
  /\ UNCHANGED <<selectedId, history, canUndo, gestureVars, snapToLayerCenters,
                 guideLinesLocked, wizardVars, asyncVars, gestureStart>>

\* A pointer-up that checkpoints the sequence as it is at the end of the gesture.
handleMouseUpLate ==
  /\ UserEvent
  /\ IF (isDragging \/ isResizing) /\ pendingUndoState # NoPending
     THEN /\ history' = PushOf(history, ShallowCopy(layers))
          /\ canUndo' = TRUE
          /\ pendingUndoState' = NoPending
          /\ Mutated("handleMouseUp", gestureStart)
     ELSE /\ UNCHANGED <<history, canUndo, pendingUndoState>>
          /\ Did("handleMouseUp")
  /\ isDragging' = FALSE
  /\ isResizing' = FALSE
  /\ resizeHandle' = Null
  /\ draggingGuide' = Null
  /\ UNCHANGED <<layers, selectedId, dragOffset, resizeStart, guideVars, wizardVars,
                 asyncVars, gestureStart>>

\* A pointer-up that also checkpoints at the end of a guide drag.
handleMouseUpGuides ==
  /\ UserEvent
  /\ IF isDragging \/ isResizing \/ draggingGuide # Null
     THEN /\ history' = PushOf(history, IF pendingUndoState # NoPending
                                        THEN pendingUndoState[1]
                                        ELSE ShallowCopy(layers))
          /\ canUndo' = TRUE
          /\ pendingUndoState' = NoPending
          /\ Mutated("handleMouseUp", gestureStart)
     ELSE /\ UNCHANGED <<history, canUndo, pendingUndoState>>
          /\ Did("handleMouseUp")
  /\ isDragging' = FALSE
  /\ isResizing' = FALSE
  /\ resizeHandle' = Null
  /\ draggingGuide' = Null
  /\ UNCHANGED <<layers, selectedId, dragOffset, resizeStart, guideVars, wizardVars,
                 asyncVars, gestureStart>>

\* A pointer-up that leaves a guide drag going.
handleMouseUpKeepsGuide ==
  /\ UserEvent
  /\ IF (isDragging \/ isResizing) /\ pendingUndoState # NoPending
     THEN /\ history' = PushOf(history, pendingUndoState[1])
          /\ canUndo' = TRUE
          /\ pendingUndoState' = NoPending
          /\ Mutated("handleMouseUp", gestureStart)
     ELSE /\ UNCHANGED <<history, canUndo, pendingUndoState>>
          /\ Did("handleMouseUp")
  /\ isDragging' = FALSE
  /\ isResizing' = FALSE
  /\ resizeHandle' = Null
  /\ UNCHANGED <<layers, selectedId, dragOffset, resizeStart, draggingGuide, guideVars,
                 wizardVars, asyncVars, gestureStart>>

\* handleMouseUp, lines 523-536: pointer-up and pointer-leave (lines 1089-1090).
handleMouseUp ==
  /\ UserEvent
  /\ IF (isDragging \/ isResizing) /\ pendingUndoState # NoPending
     THEN /\ history' = PushOf(history, pendingUndoState[1])
          /\ canUndo' = TRUE
          /\ pendingUndoState' = NoPending
          /\ Mutated("handleMouseUp", gestureStart)
     ELSE /\ UNCHANGED <<history, canUndo, pendingUndoState>>
          /\ Did("handleMouseUp")
  /\ isDragging' = FALSE
  /\ isResizing' = FALSE
  /\ resizeHandle' = Null
  /\ draggingGuide' = Null
  /\ UNCHANGED <<layers, selectedId, dragOffset, resizeStart, guideVars, wizardVars,
                 asyncVars, gestureStart>>

\* The checkboxes of lines 911 and 920.
setGuideLinesLocked(checked) ==
  /\ UserEvent
  /\ Did("setGuideLinesLocked")
  /\ guideLinesLocked' = checked
  /\ UNCHANGED <<storeVars, gestureVars, guides, snapToLayerCenters, wizardVars,
                 asyncVars, gestureStart>>

setSnapToLayerCenters(checked) ==
  /\ UserEvent
  /\ Did("setSnapToLayerCenters")
  /\ snapToLayerCenters' = checked
  /\ UNCHANGED <<storeVars, gestureVars, guides, guideLinesLocked, wizardVars,
                 asyncVars, gestureStart>>

----------------------------------------------------------------------------
(* Reference-point wizard.                                                 *)

\* handleAutoAlignClick, lines 747-753.
handleAutoAlignClick ==
  /\ UserEvent
  /\ IF Len(layers) < 1
     THEN /\ UNCHANGED wizardVars
          /\ Did("handleAutoAlignClick")
     ELSE /\ DidOpen
          /\ alignWarning' = NoWarning
          /\ alignModalOpen' = TRUE
          /\ alignModalLayerIndex' = 0
          /\ alignModalStep' = 0
  /\ UNCHANGED <<storeVars, gestureVars, guideVars, asyncVars, gestureStart>>

\* The refs a pick at the clamped point (clampedX, clampedY) writes at a step,
\* lines 562-586.
PickedRefs(l, step, clampedX, clampedY) ==
  LET refs == RefsOf(l)
  IN  CASE step = 0 -> [refs EXCEPT !.bodyTopY = clampedY]
        [] step = 1 -> [refs EXCEPT !.faceBottomY = clampedY]
        [] step = 2 -> [refs EXCEPT !.bodyBottomY = clampedY]
        [] step = 3 -> [refs EXCEPT !.eyeLeftX = clampedX, !.eyeLeftY = clampedY]
        [] step = 4 -> [refs EXCEPT !.eyeRightX = clampedX, !.eyeRightY = clampedY]
        [] OTHER -> refs

\* The advance shared by a pick (lines 589-596) and Next (lines 616-623).
Advance ==
  IF alignModalStep < 4
  THEN alignModalStep' = alignModalStep + 1 /\ UNCHANGED alignModalLayerIndex
  ELSE IF alignModalLayerIndex < Len(layers) - 1
  THEN alignModalLayerIndex' = alignModalLayerIndex + 1 /\ alignModalStep' = 0
  ELSE UNCHANGED <<alignModalLayerIndex, alignModalStep>>

\* handleAlignModalCanvasClick, lines 550-599, at the point (localX, localY)
\* of the wizard canvas.
handleAlignModalCanvasClick(localX, localY) ==
  /\ UserEvent
  /\ IF ~alignModalOpen \/ alignModalLayerIndex >= Len(layers)
     THEN /\ UNCHANGED <<layers, alignModalLayerIndex, alignModalStep>>
          /\ Did("handleAlignModalCanvasClick")
     ELSE LET id == At(layers, alignModalLayerIndex).id
              F(l, i) == IF l.id # id THEN l
                         ELSE [l EXCEPT !.refs = PickedRefs(l, alignModalStep,
                                                            Clamp01(localX), Clamp01(localY))]
          IN  /\ layers' = MapLayers(layers, F)
              /\ Advance
              /\ DidPick([x |-> Clamp01(localX), y |-> Clamp01(localY)])
  /\ UNCHANGED <<selectedId, history, canUndo, gestureVars, guideVars, alignModalOpen,
                 alignWarning, asyncVars, gestureStart>>

\* handleAlignModalNext, lines 616-623.
handleAlignModalNext ==
  /\ UserEvent
  /\ Did("handleAlignModalNext")
  /\ Advance
  /\ UNCHANGED <<storeVars, gestureVars, guideVars, alignModalOpen, alignWarning,
                 asyncVars, gestureStart>>

\* A Prev that enters the layer before at its first step.
handleAlignModalPrevFirst ==
  /\ UserEvent
  /\ Did("handleAlignModalPrev")
  /\ IF alignModalStep > 0
     THEN alignModalStep' = alignModalStep - 1 /\ UNCHANGED alignModalLayerIndex
     ELSE IF alignModalLayerIndex > 0
     THEN alignModalLayerIndex' = alignModalLayerIndex - 1 /\ alignModalStep' = 0
     ELSE UNCHANGED <<alignModalLayerIndex, alignModalStep>>
  /\ UNCHANGED <<storeVars, gestureVars, guideVars, alignModalOpen, alignWarning,
                 asyncVars, gestureStart>>

\* handleAlignModalPrev, lines 625-632.
handleAlignModalPrev ==
  /\ UserEvent
  /\ Did("handleAlignModalPrev")
  /\ IF alignModalStep > 0
     THEN alignModalStep' = alignModalStep - 1 /\ UNCHANGED alignModalLayerIndex
     ELSE IF alignModalLayerIndex > 0
     THEN alignModalLayerIndex' = alignModalLayerIndex - 1 /\ alignModalStep' = 4
     ELSE UNCHANGED <<alignModalLayerIndex, alignModalStep>>
  /\ UNCHANGED <<storeVars, gestureVars, guideVars, alignModalOpen, alignWarning,
                 asyncVars, gestureStart>>

\* The close button and the overlay, lines 1246 and 1255.
closeAlignModal ==
  /\ UserEvent
  /\ Did("closeAlignModal")
  /\ alignModalOpen' = FALSE
  /\ UNCHANGED <<storeVars, gestureVars, guideVars, alignModalLayerIndex, alignModalStep,
                 alignWarning, asyncVars, gestureStart>>

----------------------------------------------------------------------------
(* Alignment solver: runAutoAlign, lines 655-745.                          *)

\* Lines 659-673: what is read off the reference layer.
RefFrame(refLayer) ==
  LET refRefs == RefsOf(refLayer)
      refEyeLeft == imageToCanvas(refLayer, refRefs.eyeLeftX, refRefs.eyeLeftY)
      refEyeRight == imageToCanvas(refLayer, refRefs.eyeRightX, refRefs.eyeRightY)
      refBodyTop == imageToCanvas(refLayer, <<1, 2>>, refRefs.bodyTopY)
      refFaceBottom == imageToCanvas(refLayer, <<1, 2>>, refRefs.faceBottomY)
      refBodyBottom == imageToCanvas(refLayer, <<1, 2>>, refRefs.bodyBottomY)
  IN  [refEyeSpanX |-> RSub(refEyeRight.x, refEyeLeft.x),
       refBodyFaceSpanY |-> RSub(refFaceBottom.y, refBodyTop.y),
       refBodySpanY |-> RSub(refBodyBottom.y, refBodyTop.y),
       refEyeCenterX |-> RHalf(RAdd(refEyeLeft.x, refEyeRight.x)),
       refBodyFaceMidY |-> RHalf(RAdd(refBodyTop.y, refFaceBottom.y)),
       refBodyBottomY |-> refBodyBottom.y,
       refFaceNorm |-> RSub(refRefs.faceBottomY, refRefs.bodyTopY),
       refBodyNorm |-> RSub(refRefs.bodyBottomY, refRefs.bodyTopY)]

\* A skip that looks at the eye span only.
DegenerateEyesOnly(layer) ==
  LET refs == RefsOf(layer)
      dxEye == RSub(refs.eyeRightX, refs.eyeLeftX)
  IN  RLt(RAbs(dxEye), DegenerateSpan)

\* Lines 681-686: the layer's own marks are degenerate and the layer is skipped.
Degenerate(layer) ==
  LET refs == RefsOf(layer)
      dxEye == RSub(refs.eyeRightX, refs.eyeLeftX)
      dyFaceBody == RSub(refs.faceBottomY, refs.bodyTopY)
  IN  RLt(RAbs(dxEye), DegenerateSpan) \/ RLt(RAbs(dyFaceBody), DegenerateSpan)

\* A solve that places the layer as if its image filled its box.
SolvedNoInset(layer, frame) ==
  LET refs == RefsOf(layer)
      dxEye == RSub(refs.eyeRightX, refs.eyeLeftX)
      dyFaceBody == RSub(refs.faceBottomY, refs.bodyTopY)
      eyeCenterFrac == RHalf(RAdd(refs.eyeLeftX, refs.eyeRightX))
      bodyFaceMidFrac == RHalf(RAdd(refs.bodyTopY, refs.faceBottomY))
      newWidth == RDiv(frame.refEyeSpanX, dxEye)
      newHeight == RDiv(frame.refBodyFaceSpanY, dyFaceBody)
  IN  [x |-> RSub(frame.refEyeCenterX, RMul(eyeCenterFrac, newWidth)),
       y |-> RSub(frame.refBodyFaceMidY, RMul(bodyFaceMidFrac, newHeight)),
       width |-> newWidth, height |-> newHeight]

\* A solve that takes the height of the box from the reference's body span.
SolvedFromBodySpan(layer, frame) ==
  LET refs == RefsOf(layer)
      dxEye == RSub(refs.eyeRightX, refs.eyeLeftX)
      dyFaceBody == RSub(refs.faceBottomY, refs.bodyTopY)
      eyeCenterFrac == RHalf(RAdd(refs.eyeLeftX, refs.eyeRightX))
      bodyFaceMidFrac == RHalf(RAdd(refs.bodyTopY, refs.faceBottomY))
      newWidth == RDiv(frame.refEyeSpanX, dxEye)
      newHeight == RDiv(frame.refBodySpanY, dyFaceBody)
      R == layer.aspectRatio
  IN  IF RatioGt(newWidth, newHeight, R)
      THEN LET imgW == RMul(newHeight, R)
               left == RHalf(RSub(newWidth, imgW))
           IN  [x |-> RSub(RSub(frame.refEyeCenterX, left), RMul(eyeCenterFrac, imgW)),
                y |-> RSub(frame.refBodyFaceMidY, RMul(bodyFaceMidFrac, newHeight)),
                width |-> newWidth, height |-> newHeight]
      ELSE LET imgH == RDiv(newWidth, R)
               top == RHalf(RSub(newHeight, imgH))
           IN  [x |-> RSub(frame.refEyeCenterX, RMul(eyeCenterFrac, newWidth)),
                y |-> RSub(RSub(frame.refBodyFaceMidY, top), RMul(bodyFaceMidFrac, imgH)),
                width |-> newWidth, height |-> newHeight]

\* A solve that moves the layer by the solved offset instead of to it.
SolvedByOffset(layer, frame) ==
  LET refs == RefsOf(layer)
      dxEye == RSub(refs.eyeRightX, refs.eyeLeftX)
      dyFaceBody == RSub(refs.faceBottomY, refs.bodyTopY)
      eyeCenterFrac == RHalf(RAdd(refs.eyeLeftX, refs.eyeRightX))
      bodyFaceMidFrac == RHalf(RAdd(refs.bodyTopY, refs.faceBottomY))
      newWidth == RDiv(frame.refEyeSpanX, dxEye)
      newHeight == RDiv(frame.refBodyFaceSpanY, dyFaceBody)
      R == layer.aspectRatio
  IN  IF RatioGt(newWidth, newHeight, R)
      THEN LET imgW == RMul(newHeight, R)
               left == RHalf(RSub(newWidth, imgW))
           IN  [x |-> RAdd(layer.x, RSub(RSub(frame.refEyeCenterX, left),
                                         RMul(eyeCenterFrac, imgW))),
                y |-> RAdd(layer.y, RSub(frame.refBodyFaceMidY,
                                         RMul(bodyFaceMidFrac, newHeight))),
                width |-> newWidth, height |-> newHeight]
      ELSE LET imgH == RDiv(newWidth, R)
               top == RHalf(RSub(newHeight, imgH))
           IN  [x |-> RAdd(layer.x, RSub(frame.refEyeCenterX,
                                         RMul(eyeCenterFrac, newWidth))),
                y |-> RAdd(layer.y, RSub(RSub(frame.refBodyFaceMidY, top),
                                         RMul(bodyFaceMidFrac, imgH))),
                width |-> newWidth, height |-> newHeight]

\* Lines 688-717: the geometry solved for a layer that is not skipped.
Solved(layer, frame) ==
  LET refs == RefsOf(layer)
      dxEye == RSub(refs.eyeRightX, refs.eyeLeftX)
      dyFaceBody == RSub(refs.faceBottomY, refs.bodyTopY)
      eyeCenterFrac == RHalf(RAdd(refs.eyeLeftX, refs.eyeRightX))
      bodyFaceMidFrac == RHalf(RAdd(refs.bodyTopY, refs.faceBottomY))
      newWidth == RDiv(frame.refEyeSpanX, dxEye)
      newHeight == RDiv(frame.refBodyFaceSpanY, dyFaceBody)
      R == layer.aspectRatio
  IN  IF RatioGt(newWidth, newHeight, R)
      THEN LET imgW == RMul(newHeight, R)
               left == RHalf(RSub(newWidth, imgW))
           IN  [x |-> RSub(RSub(frame.refEyeCenterX, left), RMul(eyeCenterFrac, imgW)),
                y |-> RSub(frame.refBodyFaceMidY, RMul(bodyFaceMidFrac, newHeight)),
                width |-> newWidth, height |-> newHeight]
      ELSE LET imgH == RDiv(newWidth, R)
               top == RHalf(RSub(newHeight, imgH))
           IN  [x |-> RSub(frame.refEyeCenterX, RMul(eyeCenterFrac, newWidth)),
                y |-> RSub(RSub(frame.refBodyFaceMidY, top), RMul(bodyFaceMidFrac, imgH)),
                width |-> newWidth, height |-> newHeight]

WithGeometry(layer, g) ==
  [layer EXCEPT !.x = g.x, !.y = g.y, !.width = g.width, !.height = g.height]

\* Line 723 and 726: |refFaceToBody - layerFaceToBody| > 0.15, where
\* refFaceToBody is a quotient whose divisor can be zero (an infinity exceeds
\* the tolerance, a NaN does not).
ProportionMismatch(frame, layerFaceToBody) ==
  IF frame.refBodyNorm = Zero
  THEN frame.refFaceNorm # Zero
  ELSE RGt(RAbs(RSub(RDiv(frame.refFaceNorm, frame.refBodyNorm), layerFaceToBody)),
           ProportionTolerance)

\* Lines 719-730: the consistency check pushes a warning for the layer.
Flagged(layer, frame) ==
  LET refs == RefsOf(layer)
      dyFaceBody == RSub(refs.faceBottomY, refs.bodyTopY)
      dyBody == RSub(refs.bodyBottomY, refs.bodyTopY)
      resultLayer == WithGeometry(layer, Solved(layer, frame))
      ourBodyBottom == imageToCanvas(resultLayer, <<1, 2>>, refs.bodyBottomY).y
      bodyBottomGap == RAbs(RSub(ourBodyBottom, frame.refBodyBottomY))
      positionMismatch ==
        RGt(bodyBottomGap, RMul(RMin(frame.refBodySpanY, PositionCap), PositionFactor))
  IN  /\ RGe(RAbs(dyBody), DegenerateSpan)
      /\ positionMismatch \/ ProportionMismatch(frame, RDiv(dyFaceBody, dyBody))

\* An updater that solves the reference layer like every other layer.
AlignedAll(layer, idx, frame) ==
  IF Degenerate(layer) THEN layer
  ELSE WithGeometry(layer, Solved(layer, frame))

\* The updater of lines 677-740 applied to the layer at index idx.
Aligned(layer, idx, frame) ==
  IF idx = 0 THEN layer
  ELSE IF Degenerate(layer) THEN layer
  ELSE WithGeometry(layer, Solved(layer, frame))

AlignWarnings(ls, frame) ==
  LET flagged == {k \in 2 .. Len(ls) : ~Degenerate(ls[k]) /\ Flagged(ls[k], frame)}
      RECURSIVE Upto(_)
      Upto(k) == IF k = 0 THEN <<>>
                 ELSE IF k \in flagged THEN Append(Upto(k - 1), k) ELSE Upto(k - 1)
  IN  Upto(Len(ls))

\* An alignment that runs on any number of layers.
runAutoAlignUnguarded(eager) ==
  /\ UserEvent
  /\ LET frame == RefFrame(At(layers, 0))
         F(layer, idx) == Aligned(layer, idx, frame)
         warnings == AlignWarnings(layers, frame)
     IN  /\ pushHistory
         /\ layers' = MapLayers(layers, F)
         /\ alignWarning' = IF eager /\ Len(warnings) > 0 THEN warnings ELSE NoWarning
         /\ alignModalOpen' = FALSE
         /\ UNCHANGED <<alignModalLayerIndex, alignModalStep>>
         /\ Mutated("runAutoAlign", layers)
  /\ UNCHANGED <<selectedId, gestureVars, guideVars, asyncVars, gestureStart>>

\* An alignment that checkpoints once for each layer it visits.
runAutoAlignPerLayer(eager) ==
  /\ UserEvent
  /\ IF Len(layers) < 2
     THEN /\ UNCHANGED <<layers, history, canUndo, wizardVars>>
          /\ Did("runAutoAlign")
     ELSE LET frame == RefFrame(At(layers, 0))
              F(layer, idx) == Aligned(layer, idx, frame)
              warnings == AlignWarnings(layers, frame)
              RECURSIVE Pushes(_)
              Pushes(k) == IF k = 0 THEN history
                           ELSE PushOf(Pushes(k - 1), SnapshotOf(layers))
          IN  /\ history' = Pushes(Len(layers) - 1)
              /\ canUndo' = TRUE
              /\ layers' = MapLayers(layers, F)
              /\ alignWarning' = IF eager /\ Len(warnings) > 0 THEN warnings ELSE NoWarning
              /\ alignModalOpen' = FALSE
              /\ UNCHANGED <<alignModalLayerIndex, alignModalStep>>
              /\ Mutated("runAutoAlign", layers)
  /\ UNCHANGED <<selectedId, gestureVars, guideVars, asyncVars, gestureStart>>

\* runAutoAlign.  The warnings are collected inside the setLayers updater and
\* read right after the call (line 741): they are there only when React ran
\* the updater eagerly inside setLayers, which the component does not control.
runAutoAlign(eager) ==
  /\ UserEvent
  /\ IF Len(layers) < 2
     THEN /\ UNCHANGED <<layers, history, canUndo, wizardVars>>
          /\ Did("runAutoAlign")
     ELSE LET frame == RefFrame(At(layers, 0))
              F(layer, idx) == Aligned(layer, idx, frame)
              warnings == AlignWarnings(layers, frame)
          IN  /\ pushHistory
              /\ layers' = MapLayers(layers, F)
              /\ alignWarning' = IF eager /\ Len(warnings) > 0 THEN warnings ELSE NoWarning
              /\ alignModalOpen' = FALSE
              /\ UNCHANGED <<alignModalLayerIndex, alignModalStep>>
              /\ Mutated("runAutoAlign", layers)
  /\ UNCHANGED <<selectedId, gestureVars, guideVars, asyncVars, gestureStart>>

----------------------------------------------------------------------------
(* Rendering of the layers on the canvas, lines 1099-1119.                 *)

\* The zIndex style of the layer at index idx (0-based).
zIndex(layer, idx) ==
  IF alignModalOpen /\ idx = alignModalLayerIndex THEN 250
  ELSE IF selectedId = layer.id THEN 100
  ELSE idx

\* The layer at index j is painted above the layer at index i: the higher
\* zIndex wins, and among equal ones the later element of the document.
PaintedAbove(j, i) ==
  \/ zIndex(At(layers, j), j) > zIndex(At(layers, i), i)
  \/ zIndex(At(layers, j), j) = zIndex(At(layers, i), i) /\ j > i

----------------------------------------------------------------------------
(* The events the user and the browser can deliver.                        *)

FileLists(maxLen) ==
  UNION {[1 .. n -> FileNames] : n \in 0 .. maxLen}

Visible(id) == \E k \in 1 .. Len(layers) : layers[k].id = id /\ layers[k].visible # FALSE

AddStep ==
  /\ ~ModalShown
  /\ \E now \in clock .. MaxClock, files \in FileLists(MaxLayers - Len(layers)) :
       addImages(now, files)

DecodeStep ==
  \E k \in 1 .. Len(decodePending), aspectRatio \in ImageRatios : onload(k, aspectRatio)

LayoutStep == runLayout

UndoStep == undo

MoveLayerStep ==
  /\ ~ModalShown
  /\ \E index \in Indices, direction \in {"up", "down"} : handleMoveLayer(index, direction)

DropStep ==
  /\ ~ModalShown
  /\ \E layerId \in LayerIds(layers), targetIndex \in Indices :
       handleLayerDrop(layerId, targetIndex)

ToggleStep ==
  /\ ~ModalShown
  /\ \E layerId \in LayerIds(layers) : handleToggleLayerVisibility(layerId)

RemoveStep == ~ModalShown /\ handleRemoveLayer

SelectStep ==
  /\ ~ModalShown
  /\ \/ Len(layers) > 0 /\ handleCanvasClick
     \/ \E id \in LayerIds(layers) : handleLayerPanelSelect(id)

GuideDownStep ==
  /\ ~ModalShown
  /\ Len(layers) > 0
  /\ \E guide \in GuideNames : handleGuideMouseDown(guide)

LayerDownStep ==
  /\ ~ModalShown
  /\ \E k \in 1 .. Len(layers) :
       /\ layers[k].visible # FALSE
       /\ RGt(layers[k].width, Zero) /\ RGt(layers[k].height, Zero)
       /\ handleLayerMouseDown(BodyPoint(layers[k]), layers[k].id)

ResizeDownStep ==
  /\ ~ModalShown
  /\ \E k \in 1 .. Len(layers), handle \in RESIZE_HANDLES :
       /\ layers[k].id = selectedId
       /\ layers[k].visible # FALSE
       /\ handleResizeMouseDown(HandlePoint(layers[k], handle), layers[k].id, handle)

MouseMoveStep ==
  /\ ~ModalShown
  /\ \E p \in MovePoints : handleMouseMove(Pt(p))

MouseUpStep == ~ModalShown /\ handleMouseUp

GuideOptionStep ==
  /\ ~ModalShown
  /\ Len(layers) > 0
  /\ \/ setGuideLinesLocked(~guideLinesLocked)
     \/ setSnapToLayerCenters(~snapToLayerCenters)

WizardOpenStep == ~ModalShown /\ Len(layers) > 0 /\ handleAutoAlignClick

WizardPickStep ==
  /\ ModalShown
  /\ \E p \in PickPoints : handleAlignModalCanvasClick(p[1], p[2])

WizardNavStep == ModalShown /\ (handleAlignModalNext \/ handleAlignModalPrev)

WizardCloseStep == ModalShown /\ closeAlignModal

AlignStep == ModalShown /\ \E eager \in BOOLEAN : runAutoAlign(eager)

Next ==
  \/ AddStep
  \/ DecodeStep
  \/ LayoutStep
  \/ UndoStep
  \/ MoveLayerStep
  \/ DropStep
  \/ ToggleStep
  \/ RemoveStep
  \/ SelectStep
  \/ GuideDownStep
  \/ LayerDownStep
  \/ ResizeDownStep
  \/ MouseMoveStep
  \/ MouseUpStep
  \/ GuideOptionStep
  \/ WizardOpenStep
  \/ WizardPickStep
  \/ WizardNavStep
  \/ WizardCloseStep
  \/ AlignStep

Spec == Init /\ [][Next]_vars

\* Sessions that add files, undo, and select: the empty canvas at the start.
NextAdd ==
  \/ AddStep
  \/ UndoStep
  \/ DecodeStep
  \/ LayoutStep
  \/ SelectStep

SpecAdd == Init /\ [][NextAdd]_vars

\* Sessions that only add files: the decodes and the layout passes of the
\* added layers run in any order.
SettleOps == 2

InitSettle ==
  /\ layers = EmptyLayers
  /\ selectedId = NoId
  /\ history = <<>>
  /\ canUndo = FALSE
  /\ InitIdle
  /\ dragOffset = [x |-> Zero, y |-> Zero]
  /\ resizeStart = NoStart
  /\ alignModalOpen = FALSE
  /\ alignModalLayerIndex = 0
  /\ alignModalStep = 0
  /\ prevLayerCount = 0
  /\ layoutPending = 0
  /\ decodePending = <<>>
  /\ clock = 0
  /\ ops = SettleOps
  /\ gestureStart = EmptyLayers
  /\ preMutation = EmptyLayers
  /\ lastUserOp = [name |-> "none", committed |-> FALSE, undid |-> "none"]
  /\ wizardLog = NoLog

NextSettle ==
  \/ AddStep
  \/ DecodeStep
  \/ LayoutStep

SpecSettle == InitSettle /\ [][NextSettle]_vars

----------------------------------------------------------------------------
(* Scenes: states the component is in after a session that added          *)
(* MaxLayers files at once (clock 0), let the layout pass and the decodes  *)
(* run (the decode of the last file may still be pending), clicked the     *)
(* first layer some number of times and then dragged it, or pulled its     *)
(* bottom edge, to ScenePoint.  Every value below is computed by the       *)
(* operators of the handlers that such a session runs.                     *)

EditOps == 2
GestureOps == 3

SceneFile == "a.png"
ScenePoint == Pt(<<600, 400>>)
Undecoded == Zero
HistFill == MAX_HISTORY - 2

\* The layers before the last one decoded to 2:1; the last one decoded to
\* either ratio or has not decoded yet.
SceneRatios ==
  {rs \in [1 .. MaxLayers -> ImageRatios \cup {Undecoded}] :
     \A k \in 1 .. (MaxLayers - 1) : rs[k] = <<2, 1>>}

SettledLayer(i, r) ==
  IF r = Undecoded THEN LaidOut(NewLayer(0, i, SceneFile))
  ELSE LaidOut(DecodedLayer(NewLayer(0, i, SceneFile), r))

Settled(rs) == [k \in 1 .. Len(rs) |-> SettledLayer(k - 1, rs[k])]

PendingOf(rs) ==
  LET S == SelectSeq([k \in 1 .. Len(rs) |-> k], LAMBDA k : rs[k] = Undecoded)
  IN  [j \in 1 .. Len(S) |-> <<0, S[j] - 1, SceneFile>>]

BodyOffset(l) == [x |-> RSub(BodyPoint(l).x, l.x), y |-> RSub(BodyPoint(l).y, l.y)]

StartAt(l, e) == [mouseX |-> e.x, mouseY |-> e.y, width |-> l.width,
                  height |-> l.height, x |-> l.x, y |-> l.y]

Dragged(l) == [l EXCEPT !.x = RSub(ScenePoint.x, BodyOffset(l).x),
                        !.y = RSub(ScenePoint.y, BodyOffset(l).y)]

Shortened(l) == Resized(l, StartAt(l, HandlePoint(l, "s")), "s", ScenePoint)

InitScene(budget, rs, edit, clicks) ==
  LET base == Settled(rs)
      l == base[1]
  IN  /\ layers = [base EXCEPT ![1] = IF edit = "dragged" THEN Dragged(l) ELSE Shortened(l)]
      /\ selectedId = l.id
      /\ history = <<EmptyLayers>> \o [k \in 1 .. (clicks + 1) |-> base]
      /\ canUndo = TRUE
      /\ InitIdle
      /\ dragOffset = IF edit = "dragged" \/ clicks > 0 THEN BodyOffset(l)
                      ELSE [x |-> Zero, y |-> Zero]
      /\ resizeStart = IF edit = "dragged" THEN NoStart
                       ELSE StartAt(l, HandlePoint(l, "s"))
      /\ alignModalOpen = FALSE
      /\ alignModalLayerIndex = 0
      /\ alignModalStep = 0
      /\ prevLayerCount = Len(rs)
      /\ layoutPending = 0
      /\ decodePending = PendingOf(rs)
      /\ clock = 0
      /\ ops = budget
      /\ gestureStart = base
      /\ preMutation = base
      /\ lastUserOp = [name |-> "handleMouseUp", committed |-> TRUE, undid |-> "none"]
      /\ wizardLog = NoLog

InitEdit ==
  \E rs \in SceneRatios, edit \in {"dragged", "shortened"} :
    InitScene(EditOps, rs, edit, 0)

SpecEdit == InitEdit /\ [][Next]_vars

\* Scenes whose history is full, and the operations that checkpoint.
HistoryOps == 2

InitHistory ==
  \E rs \in SceneRatios, edit \in {"dragged", "shortened"} :
    InitScene(HistoryOps, rs, edit, HistFill)

NextHistory ==
  \/ AddStep
  \/ DecodeStep
  \/ LayoutStep
  \/ UndoStep
  \/ MoveLayerStep
  \/ DropStep
  \/ ToggleStep
  \/ RemoveStep
  \/ LayerDownStep
  \/ MouseMoveStep
  \/ MouseUpStep
  \/ WizardOpenStep
  \/ AlignStep

SpecHistory == InitHistory /\ [][NextHistory]_vars

InitGesture ==
  \E rs \in SceneRatios, edit \in {"dragged", "shortened"} :
    InitScene(GestureOps, rs, edit, 0)

NextGesture ==
  \/ LayerDownStep
  \/ ResizeDownStep
  \/ MouseMoveStep
  \/ MouseUpStep
  \/ GuideDownStep
  \/ UndoStep
  \/ DecodeStep

SpecGesture == InitGesture /\ [][NextGesture]_vars

----------------------------------------------------------------------------
(* Wizard scenes: 2 .. AlignLayers files were added at once, decoded and   *)
(* laid out; the user may have pulled the bottom edge of the first layer   *)
(* to ScenePoint (after selecting it in the panel); then the wizard was    *)
(* opened and walked to its last position, marking the layers on the way   *)
(* (a layer left unmarked keeps no refs).                                  *)

AlignLayers == 3
AlignOps == 2

Marks(bodyTopY, faceBottomY, bodyBottomY, eyeLeftX, eyeRightX) ==
  [bodyTopY |-> bodyTopY, faceBottomY |-> faceBottomY, bodyBottomY |-> bodyBottomY,
   eyeLeftX |-> eyeLeftX, eyeLeftY |-> <<2, 5>>,
   eyeRightX |-> eyeRightX, eyeRightY |-> <<2, 5>>]

MarksScenario == Marks(<<1, 5>>, <<3, 5>>, <<9, 10>>, <<3, 10>>, <<7, 10>>)
MarksReversed == Marks(<<1, 5>>, <<1, 2>>, <<4, 5>>, <<13, 20>>, <<7, 20>>)
MarksCloseEyes == Marks(<<1, 5>>, <<3, 5>>, <<9, 10>>, <<1, 2>>, <<101, 200>>)
MarksFlatFace == Marks(<<1, 5>>, <<41, 200>>, <<4, 5>>, <<3, 10>>, <<7, 10>>)
MarksThreshold == Marks(<<1, 5>>, <<21, 100>>, <<4, 5>>, <<1, 2>>, <<51, 100>>)
MarksNarrow == Marks(<<1, 5>>, <<3, 5>>, <<9, 10>>, <<9, 20>>, <<11, 20>>)
MarksWideEyes == Marks(<<1, 5>>, <<2, 5>>, <<9, 10>>, <<1, 5>>, <<4, 5>>)
MarksNoFace == Marks(<<1, 5>>, <<1, 5>>, <<4, 5>>, <<3, 10>>, <<7, 10>>)

RefSamples == {NoRefs, MarksScenario, MarksReversed, MarksCloseEyes, MarksFlatFace,
               MarksThreshold, MarksNarrow, MarksWideEyes}
ReferenceSamples == {NoRefs, MarksReversed, MarksNoFace}
LaterSamples == {MarksScenario, MarksFlatFace, MarksNarrow}

\* The first layer is the reference; the second one takes every sample and
\* either ratio; the layers after it take the samples of LaterSamples.
AlignRatios(n) ==
  {rs \in [1 .. n -> ImageRatios] :
     rs[1] = <<2, 1>> /\ \A k \in 3 .. n : rs[k] = <<1, 2>>}

AlignMarks(n) ==
  {m \in [1 .. n -> RefSamples \cup ReferenceSamples] :
     /\ m[1] \in ReferenceSamples
     /\ m[2] \in RefSamples
     /\ \A k \in 3 .. n : m[k] \in LaterSamples}

InitAlignScene(rs, marks, shortened, budget) ==
  LET n == Len(rs)
      base == Settled(rs)
      l == base[1]
      placed == IF shortened THEN [base EXCEPT ![1] = Shortened(l)] ELSE base
  IN  /\ layers = [k \in 1 .. n |-> [placed[k] EXCEPT !.refs = marks[k]]]
      /\ selectedId = IF shortened THEN l.id ELSE NoId
      /\ history = IF shortened THEN <<EmptyLayers, base>> ELSE <<EmptyLayers>>
      /\ canUndo = TRUE
      /\ InitIdle
      /\ dragOffset = [x |-> Zero, y |-> Zero]
      /\ resizeStart = IF shortened THEN StartAt(l, HandlePoint(l, "s")) ELSE NoStart
      /\ alignModalOpen = TRUE
      /\ alignModalLayerIndex = n - 1
      /\ alignModalStep = 4
      /\ prevLayerCount = n
      /\ layoutPending = 0
      /\ decodePending = <<>>
      /\ clock = 0
      /\ ops = budget
      /\ gestureStart = IF shortened THEN base ELSE EmptyLayers
      /\ preMutation = IF shortened THEN base ELSE EmptyLayers
      /\ lastUserOp = [name |-> "handleAlignModalNext", committed |-> FALSE, undid |-> "none"]
      /\ wizardLog = [from |-> <<n - 1, 4>>, run |-> FALSE, picks |-> <<>>]

InitAlign ==
  \E n \in 2 .. AlignLayers :
    \E rs \in AlignRatios(n), marks \in AlignMarks(n), shortened \in BOOLEAN :
      InitAlignScene(rs, marks, shortened, AlignOps)

NextAlign ==
  \/ AlignStep
  \/ UndoStep
  \/ WizardPickStep
  \/ WizardNavStep

SpecAlign == InitAlign /\ [][NextAlign]_vars

\* Sessions that apply the alignment, open the wizard again and apply it
\* once more.
RealignOps == 3

InitRealign ==
  \E n \in 2 .. AlignLayers :
    \E rs \in AlignRatios(n), marks \in AlignMarks(n), shortened \in BOOLEAN :
      InitAlignScene(rs, marks, shortened, RealignOps)

NextRealign ==
  \/ AlignStep
  \/ WizardOpenStep

SpecRealign == InitRealign /\ [][NextRealign]_vars

----------------------------------------------------------------------------
(* Wizard walks: 1 .. MaxLayers files were added at once, decoded and laid *)
(* out, the wizard was opened and Next was pressed until the wizard stood  *)
(* at some position; no layer has been marked yet.                         *)

WizardOps == 2

WalkRatios(n) == {rs \in [1 .. n -> ImageRatios] : \A k \in 1 .. (n - 1) : rs[k] = <<2, 1>>}

InitWalk(rs, index, step) ==
  /\ layers = Settled(rs)
  /\ selectedId = NoId
  /\ history = <<EmptyLayers>>
  /\ canUndo = TRUE
  /\ InitIdle
  /\ dragOffset = [x |-> Zero, y |-> Zero]
  /\ resizeStart = NoStart
  /\ alignModalOpen = TRUE
  /\ alignModalLayerIndex = index
  /\ alignModalStep = step
  /\ prevLayerCount = Len(rs)
  /\ layoutPending = 0
  /\ decodePending = <<>>
  /\ clock = 0
  /\ ops = WizardOps
  /\ gestureStart = EmptyLayers
  /\ preMutation = EmptyLayers
  /\ lastUserOp = [name |-> IF index = 0 /\ step = 0 THEN "handleAutoAlignClick"
                            ELSE "handleAlignModalNext",
                   committed |-> FALSE, undid |-> "none"]
  /\ wizardLog = IF index = 0 /\ step = 0 THEN [NoLog EXCEPT !.run = TRUE]
                 ELSE [NoLog EXCEPT !.from = IF step > 0 THEN <<index, step - 1>>
                                             ELSE <<index - 1, 4>>]

InitWizard ==
  \E n \in 1 .. MaxLayers :
    \E rs \in WalkRatios(n), index \in 0 .. (n - 1), step \in 0 .. 4 :
      InitWalk(rs, index, step)

NextWizard ==
  \/ WizardPickStep
  \/ WizardNavStep
  \/ WizardCloseStep
  \/ WizardOpenStep
  \/ AlignStep
  \/ UndoStep

SpecWizard == InitWizard /\ [][NextWizard]_vars

----------------------------------------------------------------------------
(* Marking sessions: 1 .. MaxLayers files were added at once, decoded and  *)
(* laid out; or one file was added and, within the same millisecond of the *)
(* clock, a file of the same name and ratio was added, and then both       *)
(* decoded and were laid out.  The user opens the wizard and picks point   *)
(* after point, and presses Next only once every layer has had its five    *)
(* picks.                                                                  *)

PickOps == 12

\* The layers after two adds of SceneFile at clock 0: both got the id
\* 0-0-SceneFile, the decode correction and the layout.  The second add
\* checkpointed the first layer as it was created.
TwiceAdded(r) == <<SettledLayer(0, r), SettledLayer(0, r)>>
OnceAdded == <<NewLayer(0, 0, SceneFile)>>

InitMarking(ls, hist, budget) ==
  /\ layers = ls
  /\ selectedId = NoId
  /\ history = hist
  /\ canUndo = TRUE
  /\ InitIdle
  /\ dragOffset = [x |-> Zero, y |-> Zero]
  /\ resizeStart = NoStart
  /\ alignModalOpen = FALSE
  /\ alignModalLayerIndex = 0
  /\ alignModalStep = 0
  /\ prevLayerCount = Len(ls)
  /\ layoutPending = 0
  /\ decodePending = <<>>
  /\ clock = 0
  /\ ops = budget
  /\ gestureStart = EmptyLayers
  /\ preMutation = hist[Len(hist)]
  /\ lastUserOp = [name |-> "addImages", committed |-> TRUE, undid |-> "none"]
  /\ wizardLog = NoLog

InitPicks ==
  \/ \E n \in 1 .. MaxLayers :
       \E rs \in WalkRatios(n) : InitMarking(Settled(rs), <<EmptyLayers>>, PickOps)
  \/ \E r \in ImageRatios :
       InitMarking(TwiceAdded(r), <<EmptyLayers, OnceAdded>>, PickOps)

NextAfterPicks ==
  /\ ModalShown
  /\ wizardLog.run
  /\ Len(wizardLog.picks) = 5 * Len(layers)
  /\ handleAlignModalNext

NextPicks ==
  \/ WizardOpenStep
  \/ WizardPickStep
  \/ NextAfterPicks

SpecPicks == InitPicks /\ [][NextPicks]_vars

----------------------------------------------------------------------------
(* Sessions with a second add: one file was added at clock 0, decoded and  *)
(* laid out; a second file was added at clock 1, decoded and laid out; the *)
(* user selected the second layer in the layer panel.                      *)

LaterLayer(r) == LaidOut(DecodedLayer(NewLayer(1, 0, SceneFile), r))

InitLater ==
  \E r1 \in ImageRatios, r2 \in ImageRatios :
    /\ layers = <<SettledLayer(0, r1), LaterLayer(r2)>>
    /\ selectedId = LaterLayer(r2).id
    /\ history = <<EmptyLayers, <<SettledLayer(0, r1)>>>>
    /\ canUndo = TRUE
    /\ InitIdle
    /\ dragOffset = [x |-> Zero, y |-> Zero]
    /\ resizeStart = NoStart
    /\ alignModalOpen = FALSE
    /\ alignModalLayerIndex = 0
    /\ alignModalStep = 0
    /\ prevLayerCount = 2
    /\ layoutPending = 0
    /\ decodePending = <<>>
    /\ clock = 1
    /\ ops = EditOps
    /\ gestureStart = EmptyLayers
    /\ preMutation = <<SettledLayer(0, r1)>>
    /\ lastUserOp = [name |-> "handleLayerPanelSelect", committed |-> FALSE, undid |-> "none"]
    /\ wizardLog = NoLog

SpecLater == InitLater /\ [][Next]_vars

----------------------------------------------------------------------------
(* Sessions at the canvas edge: 1 .. MaxLayers files were added at once,   *)
(* decoded and laid out; the user pressed the pointer on the first layer,  *)
(* at its middle or a few pixels right of and below it, dragged the layer  *)
(* to the top left corner of the canvas and released it there.  The user   *)
(* then drags guides.                                                      *)

GuideOps == 3

EdgePoint == Pt(<<0, 100>>)
Grabs == {<<0, 0>>, <<5, 5>>}

GrabPoint(l, grab) ==
  [x |-> RAdd(BodyPoint(l).x, <<grab[1], 1>>), y |-> RAdd(BodyPoint(l).y, <<grab[2], 1>>)]

GrabOffset(l, grab) ==
  [x |-> RSub(GrabPoint(l, grab).x, l.x), y |-> RSub(GrabPoint(l, grab).y, l.y)]

DraggedToEdge(l, grab) ==
  [l EXCEPT !.x = RSub(EdgePoint.x, GrabOffset(l, grab).x),
            !.y = RSub(EdgePoint.y, GrabOffset(l, grab).y)]

InitEdge(rs, grab) ==
  LET base == Settled(rs)
      l == base[1]
  IN  /\ layers = [base EXCEPT ![1] = DraggedToEdge(l, grab)]
      /\ selectedId = l.id
      /\ history = <<EmptyLayers, base>>
      /\ canUndo = TRUE
      /\ InitIdle
      /\ dragOffset = GrabOffset(l, grab)
      /\ resizeStart = NoStart
      /\ alignModalOpen = FALSE
      /\ alignModalLayerIndex = 0
      /\ alignModalStep = 0
      /\ prevLayerCount = Len(rs)
      /\ layoutPending = 0
      /\ decodePending = <<>>
      /\ clock = 0
      /\ ops = GuideOps
      /\ gestureStart = base
      /\ preMutation = base
      /\ lastUserOp = [name |-> "handleMouseUp", committed |-> TRUE, undid |-> "none"]
      /\ wizardLog = NoLog

InitGuides ==
  \E n \in 1 .. MaxLayers :
    \E rs \in WalkRatios(n), grab \in Grabs : InitEdge(rs, grab)

NextGuides ==
  \/ GuideDownStep
  \/ MouseMoveStep
  \/ MouseUpStep
  \/ GuideOptionStep
  \/ UndoStep

SpecGuides == InitGuides /\ [][NextGuides]_vars

\* Sessions that add files after a layer was moved: the same scenes, and the
\* user adds files and undoes while the decodes and the layout passes fire.
NextAddMoved ==
  \/ AddStep
  \/ DecodeStep
  \/ LayoutStep
  \/ UndoStep

SpecAddMoved == InitGuides /\ [][NextAddMoved]_vars

----------------------------------------------------------------------------
(* Properties.                                                             *)

UserStep(name) == ops' # ops /\ lastUserOp'.name = name

GestureActive == isDragging \/ isResizing

ResizeBranch ==
  draggingGuide = Null /\ isResizing /\ selectedId # NoId /\ resizeHandle # Null

\* C1: in every reachable state the history stack holds at most 50 snapshots.
C1_HistoryBounded == Len(history) <= MAX_HISTORY

\* A push arrived at a full stack and the oldest snapshot (the empty sequence
\* the first add checkpointed) is gone.
C1_Witness ==
  /\ Len(history) = MAX_HISTORY
  /\ history[1] # EmptyLayers
  /\ lastUserOp.committed

\* C2: after a committed mutation followed directly by one undo, the live
\* sequence equals the sequence before the mutation, and stays so until the
\* next user event, also across the deferred layout pass.
C2_UndoIsInverse == lastUserOp.undid # "none" => layers = preMutation

\* C3: every user operation that changes the live sequence (a pointer-move
\* aside, whose gesture is checkpointed at its end, and undo) adds a history
\* entry equal to the sequence right before the change; a gesture's entry
\* equals the sequence at pointer-down.
C3_Step ==
  /\ (ops' # ops /\ layers' # layers
        /\ lastUserOp'.name \notin {"undo", "handleMouseMove"})
     => history' = PushOf(history, layers)
  /\ (UserStep("handleMouseUp") /\ GestureActive /\ layers # gestureStart)
     => history' = PushOf(history, gestureStart)

C3_EveryChangeCheckpointed == [][C3_Step]_vars

\* C4: a completed drag or resize gesture adds exactly one history entry, the
\* sequence at pointer-down; pointer-downs and pointer-moves leave the
\* history alone.
C4_Step ==
  /\ (UserStep("handleMouseUp") /\ GestureActive)
     => history' = PushOf(history, gestureStart)
  /\ (UserStep("handleMouseMove") \/ UserStep("handleLayerMouseDown")
        \/ UserStep("handleResizeMouseDown"))
     => history' = history

C4_OneEntryPerGesture == [][C4_Step]_vars

\* A gesture that moved the layer has been completed and its one entry is on
\* top of the two entries the scene started with.
C4_Witness ==
  /\ lastUserOp.name = "handleMouseUp" /\ lastUserOp.committed
  /\ ~GestureActive
  /\ layers # gestureStart
  /\ Len(history) = 3
  /\ history[3] = gestureStart

\* C5: after every pointer-move of a resize gesture the resized layer is at
\* least 50 wide and 50 high.
C5_Step ==
  (UserStep("handleMouseMove") /\ ResizeBranch)
  => \A k \in 1 .. Len(layers') :
       layers'[k].id = selectedId
       => RGe(layers'[k].width, minSize) /\ RGe(layers'[k].height, minSize)

C5_MinimumSize == [][C5_Step]_vars

\* C6: after every pointer-move of a resize gesture on a corner handle the
\* resized layer's width / height equals its aspectRatio.
C6_Step ==
  (UserStep("handleMouseMove") /\ ResizeBranch /\ IsCorner(resizeHandle))
  => \A k \in 1 .. Len(layers') :
       layers'[k].id = selectedId
       => /\ layers'[k].height # Zero
          /\ RDiv(layers'[k].width, layers'[k].height) = layers'[k].aspectRatio

C6_CornerKeepsAspect == [][C6_Step]_vars

\* A corner resize is under way on a layer whose box did not have the image's
\* ratio at pointer-down, and a pointer-move has brought it to that ratio.
C6_Witness ==
  /\ ResizeBranch /\ IsCorner(resizeHandle)
  /\ lastUserOp.name = "handleMouseMove"
  /\ \E k \in 1 .. Len(layers) :
       /\ layers[k].id = selectedId
       /\ RDiv(resizeStart.width, resizeStart.height) # layers[k].aspectRatio
       /\ layers[k].width # resizeStart.width
       /\ RDiv(layers[k].width, layers[k].height) = layers[k].aspectRatio

\* What the claims about the solver read off a layer's own marks and off the
\* reference layer.
OwnEyeSpan(layer) == RSub(RefsOf(layer).eyeRightX, RefsOf(layer).eyeLeftX)
OwnFaceSpan(layer) == RSub(RefsOf(layer).faceBottomY, RefsOf(layer).bodyTopY)
OwnMarksDegenerate(layer) ==
  RLt(RAbs(OwnEyeSpan(layer)), <<1, 100>>) \/ RLt(RAbs(OwnFaceSpan(layer)), <<1, 100>>)

EyeCenterX(layer) ==
  RHalf(RAdd(imageToCanvas(layer, RefsOf(layer).eyeLeftX, RefsOf(layer).eyeLeftY).x,
             imageToCanvas(layer, RefsOf(layer).eyeRightX, RefsOf(layer).eyeRightY).x))

BodyFaceMidY(layer) ==
  RHalf(RAdd(imageToCanvas(layer, <<1, 2>>, RefsOf(layer).bodyTopY).y,
             imageToCanvas(layer, <<1, 2>>, RefsOf(layer).faceBottomY).y))

\* The layer's own eye-center and body/face midpoint fractions, mapped at the
\* layer's geometry, land on the reference's eye-center X and midpoint Y.
LandsOn(layer, reference) ==
  LET refs == RefsOf(layer)
      eyeCenterFrac == RHalf(RAdd(refs.eyeLeftX, refs.eyeRightX))
      bodyFaceMidFrac == RHalf(RAdd(refs.bodyTopY, refs.faceBottomY))
  IN  /\ imageToCanvas(layer, eyeCenterFrac, <<1, 2>>).x = EyeCenterX(reference)
      /\ imageToCanvas(layer, <<1, 2>>, bodyFaceMidFrac).y = BodyFaceMidY(reference)

SameGeometry(a, b) ==
  a.x = b.x /\ a.y = b.y /\ a.width = b.width /\ a.height = b.height

SameButGeometry(a, b) ==
  a.id = b.id /\ a.aspectRatio = b.aspectRatio /\ a.visible = b.visible /\ a.refs = b.refs

AlignRan == lastUserOp.name = "runAutoAlign" /\ lastUserOp.committed

\* C7: runAutoAlign changes no field of the layer at index 0, and of the other
\* layers it changes x, y, width and height only.
C7_Step ==
  UserStep("runAutoAlign")
  => /\ Len(layers') = Len(layers)
     /\ Len(layers) > 0 => layers'[1] = layers[1]
     /\ \A k \in 1 .. Len(layers) : SameButGeometry(layers'[k], layers[k])

C7_ReferenceUntouched == [][C7_Step]_vars

\* An alignment has moved a layer next to a reference layer that is drawn
\* letterboxed and carries marks of its own.
C7_Witness ==
  /\ AlignRan
  /\ layers[1] = preMutation[1]
  /\ layers[1].refs # NoRefs
  /\ RatioGt(layers[1].width, layers[1].height, layers[1].aspectRatio)
  /\ \E k \in 2 .. Len(layers) : ~SameGeometry(layers[k], preMutation[k])

\* C8: after runAutoAlign every non-reference layer that was not skipped has
\* its own eye-center on the reference's eye-center X and its own body/face
\* midpoint on the reference's midpoint Y.
C8_Step ==
  UserStep("runAutoAlign")
  => \A k \in 2 .. Len(layers') :
       ~OwnMarksDegenerate(layers[k]) => LandsOn(layers'[k], layers[1])

C8_MarksLand == [][C8_Step]_vars

\* An alignment has moved one layer into a box wider than its image and
\* another one into a box that is not.
C8_Witness ==
  /\ AlignRan
  /\ \E k \in 2 .. Len(layers) :
       /\ ~OwnMarksDegenerate(layers[k])
       /\ ~SameGeometry(layers[k], preMutation[k])
       /\ RGt(layers[k].height, Zero)
       /\ RatioGt(layers[k].width, layers[k].height, layers[k].aspectRatio)
  /\ \E k \in 2 .. Len(layers) :
       /\ ~OwnMarksDegenerate(layers[k])
       /\ ~SameGeometry(layers[k], preMutation[k])
       /\ RGt(layers[k].width, Zero) /\ RGt(layers[k].height, Zero)
       /\ RLt(RDiv(layers[k].width, layers[k].height), layers[k].aspectRatio)

\* C9: one run of runAutoAlign on two or more layers adds exactly one history
\* entry, the sequence before the run, and an undo right after it brings
\* every layer back to that sequence.
C9_Step ==
  /\ (UserStep("runAutoAlign") /\ Len(layers) >= 2)
     => /\ history' = PushOf(history, layers)
        /\ Len(history') = Len(history) + 1
  /\ (UserStep("undo") /\ AlignRan) => layers' = preMutation

C9_OneCheckpointPerBatch == [][C9_Step]_vars

\* An alignment of three layers that moved two of them has been undone.
C9_Witness ==
  /\ lastUserOp.undid = "runAutoAlign"
  /\ Len(layers) >= 3
  /\ layers = preMutation
  /\ Cardinality({k \in 2 .. Len(layers) : ~OwnMarksDegenerate(layers[k])}) >= 2

\* C10: runAutoAlign leaves the geometry of a non-reference layer with
\* degenerate marks as it was and puts no warning up for it, and still aligns
\* the other layers of the batch.
C10_Step ==
  (UserStep("runAutoAlign") /\ Len(layers) >= 2)
  => \A k \in 2 .. Len(layers) :
       IF OwnMarksDegenerate(layers[k])
       THEN /\ SameGeometry(layers'[k], layers[k])
            /\ \A j \in 1 .. Len(alignWarning') : alignWarning'[j] # k
       ELSE LandsOn(layers'[k], layers[1])

C10_DegenerateSkipped == [][C10_Step]_vars

\* A batch held a layer with a flat face next to a layer that was moved, and
\* warned about the moved layer only.
C10_Witness ==
  /\ AlignRan
  /\ \E k \in 2 .. Len(layers) :
       /\ RLt(RAbs(OwnFaceSpan(layers[k])), <<1, 100>>)
       /\ SameGeometry(layers[k], preMutation[k])
  /\ \E k \in 2 .. Len(layers) :
       /\ ~OwnMarksDegenerate(layers[k])
       /\ ~SameGeometry(layers[k], preMutation[k])
       /\ alignWarning = <<k>>

WizardAt == <<alignModalLayerIndex, alignModalStep>>

\* C11: with fewer than two layers runAutoAlign changes neither the layer
\* sequence, nor the history, nor the alignment warning, nor the wizard state.
C11_Step ==
  (UserStep("runAutoAlign") /\ Len(layers) < 2)
  => /\ layers' = layers
     /\ history' = history
     /\ alignWarning' = alignWarning
     /\ alignModalOpen' = alignModalOpen
     /\ WizardAt' = WizardAt

C11_FewLayersNoOp == [][C11_Step]_vars

\* Apply was pressed on the last step of a wizard that shows the only layer.
C11_Witness ==
  /\ lastUserOp.name = "runAutoAlign"
  /\ ~lastUserOp.committed
  /\ Len(layers) = 1
  /\ alignModalOpen
  /\ WizardAt = <<0, 4>>
  /\ history = <<EmptyLayers>>

\* The refs that the five picks numbered 5 * (k - 1) + 1 .. 5 * k of a run of
\* picks write, in the order of the wizard's steps.
OwnPick(k, j) == wizardLog.picks[5 * (k - 1) + j]

RefsFromOwnPicks(k) ==
  [bodyTopY |-> OwnPick(k, 1).y, faceBottomY |-> OwnPick(k, 2).y,
   bodyBottomY |-> OwnPick(k, 3).y,
   eyeLeftX |-> OwnPick(k, 4).x, eyeLeftY |-> OwnPick(k, 4).y,
   eyeRightX |-> OwnPick(k, 5).x, eyeRightY |-> OwnPick(k, 5).y]

PicksInARow == IF wizardLog.run THEN Len(wizardLog.picks) ELSE -1

C12_State ==
  /\ (PicksInARow >= 0 /\ PicksInARow < 5 * Len(layers))
     => WizardAt = <<PicksInARow \div 5, PicksInARow % 5>>
  /\ PicksInARow = 5 * Len(layers)
     => /\ WizardAt = <<Len(layers) - 1, 4>>
        /\ \A k \in 1 .. Len(layers) : layers[k].refs = RefsFromOwnPicks(k)

\* C12: a wizard started on N >= 1 layers stands at layer 0, step 0; each of
\* 5N picks in a row moves it one step on, layer by layer; after them every
\* layer holds the seven fields its own five picks wrote in the order
\* bodyTopY, faceBottomY, bodyBottomY, left eye, right eye, and the wizard
\* stands at (N - 1, 4), where Next and further picks leave it.
C12_Step ==
  /\ C12_State'
  /\ (/\ alignModalOpen /\ Len(layers) > 0
      /\ WizardAt = <<Len(layers) - 1, 4>>
      /\ UserStep("handleAlignModalNext") \/ UserStep("handleAlignModalCanvasClick"))
     => WizardAt' = WizardAt

C12_PicksFillRefs == [][C12_Step]_vars

WizardFirst == <<0, 0>>
WizardLast == <<Len(layers) - 1, 4>>

\* C13: Next then Prev returns to the position before the Next unless that
\* was the last position; Prev then Next returns to the position before the
\* Prev unless that was (0, 0); Prev at (0, 0) and Next at the last position
\* leave the position as it is.
C13_Step ==
  /\ (/\ UserStep("handleAlignModalPrev")
      /\ lastUserOp.name = "handleAlignModalNext"
      /\ wizardLog.from # WizardLast)
     => WizardAt' = wizardLog.from
  /\ (/\ UserStep("handleAlignModalNext")
      /\ lastUserOp.name = "handleAlignModalPrev"
      /\ wizardLog.from # WizardFirst)
     => WizardAt' = wizardLog.from
  /\ (UserStep("handleAlignModalPrev") /\ WizardAt = WizardFirst) => WizardAt' = WizardAt
  /\ (UserStep("handleAlignModalNext") /\ WizardAt = WizardLast) => WizardAt' = WizardAt

C13_NavigationSymmetric == [][C13_Step]_vars

\* Next took the wizard from the last step of layer 0 to layer 1, and Prev
\* brought it back.
C13_Witness ==
  /\ lastUserOp.name = "handleAlignModalPrev"
  /\ wizardLog.from = <<1, 0>>
  /\ WizardAt = <<0, 4>>
  /\ ops = 0
  /\ alignModalOpen

WizardStep ==
  \/ UserStep("handleAutoAlignClick")
  \/ UserStep("handleAlignModalCanvasClick")
  \/ UserStep("handleAlignModalNext")
  \/ UserStep("handleAlignModalPrev")
  \/ UserStep("closeAlignModal")

\* C14: opening the wizard, a pick, Next, Prev and closing the wizard change
\* neither x, y, width, height, aspectRatio or visibility of any layer nor
\* the order of the layers, and a pick changes the refs of no layer but the
\* one at the wizard's layer index.
C14_Step ==
  WizardStep
  => /\ Len(layers') = Len(layers)
     /\ \A k \in 1 .. Len(layers) :
          /\ SameGeometry(layers'[k], layers[k])
          /\ layers'[k].id = layers[k].id
          /\ layers'[k].aspectRatio = layers[k].aspectRatio
          /\ layers'[k].visible = layers[k].visible
          /\ (~UserStep("handleAlignModalCanvasClick") \/ k # alignModalLayerIndex + 1)
             => layers'[k].refs = layers[k].refs

C14_WizardWritesRefsOnly == [][C14_Step]_vars

\* The last committed mutation was an add to the zero-layer sequence, and
\* nothing but its decodes and layout (and events that commit nothing) came
\* after it.
AddedToEmpty ==
  /\ lastUserOp.name \in {"addImages", "onload"}
  /\ preMutation = EmptyLayers
  /\ Len(layers) > 0

UndidToEmpty ==
  /\ lastUserOp.name = "undo"
  /\ preMutation = EmptyLayers
  /\ layers = EmptyLayers

\* C15: an undo after an add of k >= 1 files to the zero-layer sequence
\* yields the zero-layer sequence, and the decode callbacks and the layout
\* pass that fire afterwards leave it zero-layer.
C15_Step ==
  /\ (UserStep("undo") /\ AddedToEmpty) => layers' = EmptyLayers
  /\ (UndidToEmpty /\ ops' = ops) => layers' = EmptyLayers

C15_UndoOfFirstAdd == [][C15_Step]_vars

\* An add to the empty canvas was undone right away, and the decodes and the
\* layout pass of the added layers have fired since.
C15_Witness ==
  /\ lastUserOp.name = "undo"
  /\ lastUserOp.undid = "addImages"
  /\ layers = EmptyLayers
  /\ history = <<>>
  /\ decodePending = <<>>
  /\ layoutPending = 0
  /\ prevLayerCount = 0
  /\ ops = MaxOps - 2

\* C16: undo with an empty history changes neither the layer sequence, nor
\* the history, nor the selection, nor the can-undo flag.
C16_Step ==
  (UserStep("undo") /\ history = <<>>)
  => /\ layers' = layers
     /\ history' = history
     /\ selectedId' = selectedId
     /\ canUndo' = canUndo

C16_UndoOnEmptyHistory == [][C16_Step]_vars

\* Undo was the first thing the user did.
C16_Witness ==
  /\ lastUserOp.name = "undo"
  /\ ops = MaxOps - 1
  /\ history = <<>>
  /\ layers = EmptyLayers
  /\ ~canUndo

\* C17: remove-layer with a selection that is the id of no layer of the
\* sequence changes neither the layer sequence nor the history.
C17_Step ==
  (UserStep("handleRemoveLayer") /\ selectedId \notin LayerIds(layers))
  => /\ layers' = layers
     /\ history' = history

C17_RemoveOfAbsentId == [][C17_Step]_vars

Positive(l) == RGt(l.width, Zero) /\ RGt(l.height, Zero) /\ RGt(l.aspectRatio, Zero)

BoxCenter(l) == [x |-> RAdd(l.x, RHalf(l.width)), y |-> RAdd(l.y, RHalf(l.height))]

\* C18: for every layer with positive width, height and aspectRatio the
\* mapper sends (0.5, 0.5) to the center of the layer's box.
C18_CenterToCenter ==
  \A k \in 1 .. Len(layers) :
    Positive(layers[k]) => imageToCanvas(layers[k], <<1, 2>>, <<1, 2>>) = BoxCenter(layers[k])

\* The sequence holds a layer whose box is wider than its image and a layer
\* whose box is taller than its image.
C18_Witness ==
  /\ \E k \in 1 .. Len(layers) :
       /\ Positive(layers[k])
       /\ RGt(RDiv(layers[k].width, layers[k].height), layers[k].aspectRatio)
  /\ \E k \in 1 .. Len(layers) :
       /\ Positive(layers[k])
       /\ RLt(RDiv(layers[k].width, layers[k].height), layers[k].aspectRatio)

\* C19: every layer of the sequence has width > 0 and height > 0, also after
\* runAutoAlign with any marks the wizard can record.
C19_PositiveSize ==
  \A k \in 1 .. Len(layers) : RGt(layers[k].width, Zero) /\ RGt(layers[k].height, Zero)

\* The image of every layer with this id has decoded: no onload is pending.
ImageDecoded(id) == \A j \in 1 .. Len(decodePending) : decodePending[j] # id

\* Each id names one layer of the sequence.
IdsNameLayers(ls) == Cardinality(LayerIds(ls)) = Len(ls)

\* C20: once the decode correction has set a layer's aspectRatio, no step
\* changes the aspectRatio of that layer while it stays in the sequence
\* (a layer being followed by its id, where ids name layers).
C20_Step ==
  (IdsNameLayers(layers) /\ IdsNameLayers(layers'))
  => \A k \in 1 .. Len(layers), j \in 1 .. Len(layers') :
       (layers'[j].id = layers[k].id /\ ImageDecoded(layers[k].id))
       => layers'[j].aspectRatio = layers[k].aspectRatio

C20_AspectRatioStable == [][C20_Step]_vars

\* C21: a layer that has reference points keeps having reference points for
\* as long as it stays in the sequence: no step, undo included, takes a
\* layer that stays (followed by its id, where ids name layers) back to the
\* state without refs.
C21_Step ==
  (IdsNameLayers(layers) /\ IdsNameLayers(layers'))
  => \A k \in 1 .. Len(layers), j \in 1 .. Len(layers') :
       (layers'[j].id = layers[k].id /\ layers[k].refs # NoRefs)
       => layers'[j].refs # NoRefs

C21_RefsKept == [][C21_Step]_vars

UnitInterval(v) == RGe(v, Zero) /\ RLe(v, One)

\* C22: in every reachable state each of the five guide positions lies
\* within [0, 1], also when snap-to-layer-centers is on and the center of a
\* layer lies outside the canvas.
C22_GuidesInUnitInterval == \A g \in GuideNames : UnitInterval(guides[g])

\* A guide drag that started while no layer gesture was going on.
GuideGesture == draggingGuide # Null /\ ~isDragging /\ ~isResizing

\* C23: pointer-down on a guide, and the moves and the pointer-up of a guide
\* drag, add no history entry and change no layer; undo changes no guide
\* position.
C23_Step ==
  /\ UserStep("handleGuideMouseDown") => (layers' = layers /\ history' = history)
  /\ (GuideGesture /\ (UserStep("handleMouseMove") \/ UserStep("handleMouseUp")))
     => (layers' = layers /\ history' = history)
  /\ UserStep("undo") => guides' = guides

C23_GuidesOutsideHistory == [][C23_Step]_vars

\* A guide was dragged to another position and released.
C23_Witness ==
  /\ lastUserOp.name = "handleMouseUp"
  /\ ops = 0
  /\ draggingGuide = Null
  /\ \E g \in GuideNames : guides[g] = Zero
  /\ Len(history) = 2

\* An onload callback ran: only onload takes an id out of the pending ones.
DecodeRan == Len(decodePending') < Len(decodePending)

\* The positions of the sequence whose layer the step changed.
ChangedAt == {k \in 1 .. Len(layers) : layers'[k] # layers[k]}

\* C24: the decode correction for a layer id changes only that layer's
\* aspectRatio, width, x and y, leaves every other layer and the history
\* unchanged, and changes nothing when no layer of the sequence has that id.
C24_Step ==
  DecodeRan
  => /\ history' = history
     /\ Len(layers') = Len(layers)
     /\ Cardinality(ChangedAt) <= 1
     /\ \E id \in {decodePending[j] : j \in 1 .. Len(decodePending)} :
          /\ \A k \in ChangedAt :
               /\ layers[k].id = id
               /\ layers'[k] = [layers[k] EXCEPT !.aspectRatio = layers'[k].aspectRatio,
                                                 !.width = layers'[k].width,
                                                 !.x = layers'[k].x,
                                                 !.y = layers'[k].y]
          /\ id \notin LayerIds(layers)
             => UNCHANGED <<storeVars, gestureVars, guideVars, wizardVars,
                            prevLayerCount, layoutPending>>

C24_DecodeTouchesOneLayer == [][C24_Step]_vars

\* The layers after the reference that the consistency check flags.
FlaggedLayers(ls) ==
  {k \in 2 .. Len(ls) : ~Degenerate(ls[k]) /\ Flagged(ls[k], RefFrame(ls[1]))}

\* C25: after runAutoAlign on two or more layers the warning is set exactly
\* when the consistency check flagged a layer, it holds one entry for each
\* flagged layer, and the solved geometry of a flagged layer is committed.
C25_Step ==
  (UserStep("runAutoAlign") /\ Len(layers) >= 2)
  => /\ (alignWarning' # NoWarning) <=> (FlaggedLayers(layers) # {})
     /\ alignWarning' # NoWarning
        => /\ Len(alignWarning') = Cardinality(FlaggedLayers(layers))
           /\ {alignWarning'[j] : j \in 1 .. Len(alignWarning')} = FlaggedLayers(layers)
     /\ \A k \in FlaggedLayers(layers) :
          layers'[k] = WithGeometry(layers[k], Solved(layers[k], RefFrame(layers[1])))

C25_WarningsSurfaced == [][C25_Step]_vars

\* C26: in every reachable state the ids of the layers of the sequence are
\* pairwise distinct, also after two adds within one millisecond of the
\* clock with files of the same name.
C26_IdsDistinct ==
  \A k \in 1 .. Len(layers), j \in 1 .. Len(layers) :
    k # j => layers[k].id # layers[j].id

\* C27: in every reachable state the selection is none or the id of a layer
\* of the sequence, also after an undo that takes the selected layer out of
\* the sequence.
C27_SelectionIsPresent == selectedId = NoId \/ selectedId \in LayerIds(layers)

\* C28: the can-undo flag is true exactly when the history stack is not
\* empty, before and after every step; an undo that finds a snapshot takes
\* exactly the newest one off the stack and makes it the sequence, and the
\* stack keeps nothing of it.
C28_Step ==
  /\ canUndo <=> (Len(history) > 0)
  /\ canUndo' <=> (Len(history') > 0)
  /\ (UserStep("undo") /\ Len(history) > 0)
     => /\ history' = SubSeq(history, 1, Len(history) - 1)
        /\ layers' = history[Len(history)]

C28_CanUndoTracksHistory == [][C28_Step]_vars

\* Two undos in a row emptied the stack.
C28_Witness ==
  /\ lastUserOp.name = "undo"
  /\ ops = EditOps - 2
  /\ history = <<>>
  /\ ~canUndo
  /\ layers = EmptyLayers

\* A user event checkpointed: a structural operation pushed the sequence, or
\* a pointer-up pushed the sequence captured at pointer-down.
Checkpointed == ops' # ops /\ lastUserOp'.committed

\* C29: a push onto a stack of 50 snapshots discards the oldest one: the
\* stack then holds the 49 newest earlier snapshots in their order, followed
\* by the new one, for structural checkpoints and for those of a gesture end.
C29_Step ==
  (Checkpointed /\ Len(history) = MAX_HISTORY)
  => /\ Len(history') = MAX_HISTORY
     /\ SubSeq(history', 1, MAX_HISTORY - 1) = Tail(history)
     /\ history'[MAX_HISTORY] = IF UserStep("handleMouseUp") THEN pendingUndoState[1]
                                ELSE SnapshotOf(layers)

C29_OldestEvicted == [][C29_Step]_vars

\* A gesture ended at a full stack: its checkpoint is the last entry and the
\* snapshot of the first add is gone.
C29_Witness ==
  /\ lastUserOp.name = "handleMouseUp"
  /\ lastUserOp.committed
  /\ Len(history) = MAX_HISTORY
  /\ history[MAX_HISTORY] = gestureStart
  /\ history[MAX_HISTORY] # history[MAX_HISTORY - 1]
  /\ history[1] # EmptyLayers

\* A layer gesture is going on and pointer-moves reach it.
LayerGesture ==
  /\ draggingGuide = Null
  /\ selectedId # NoId
  /\ isDragging \/ (isResizing /\ resizeHandle # Null)

\* The pointer went down on a layer's body, or on a resize handle, and
\* nothing has happened since.
JustPressedBody ==
  /\ lastUserOp.name = "handleLayerMouseDown"
  /\ LayerGesture /\ isDragging /\ ~isResizing
  /\ layers = gestureStart

JustPressedHandle ==
  /\ lastUserOp.name = "handleResizeMouseDown"
  /\ LayerGesture /\ isResizing
  /\ layers = gestureStart

\* The pointer positions of the two pointer-down events.
BodyDownPoint ==
  LET l == Find(layers, selectedId)
  IN  [x |-> RAdd(dragOffset.x, l.x), y |-> RAdd(dragOffset.y, l.y)]

HandleDownPoint == [x |-> resizeStart.mouseX, y |-> resizeStart.mouseY]

GesturePoints == {Pt(p) : p \in MovePoints}

\* The same pointer position twice, or any move before it, gives the same
\* sequence as the position alone.
MovesFromStart ==
  LayerGesture
  => \A p \in GesturePoints, q \in GesturePoints :
       MovedLayers(MovedLayers(layers, q), p) = MovedLayers(layers, p)

\* The box the pointer went down on has room for the handle: the dimensions
\* the handle moves are at least the minimum size, and on a corner handle
\* the box has the layer's aspectRatio.
BoxFitsHandle ==
  LET l == Find(layers, selectedId)
  IN  /\ (HasE(resizeHandle) \/ HasW(resizeHandle)) => RGe(l.width, minSize)
      /\ (HasN(resizeHandle) \/ HasS(resizeHandle)) => RGe(l.height, minSize)
      /\ IsCorner(resizeHandle) => l.width = RMul(l.height, l.aspectRatio)

RightEdge(b) == RAdd(b.x, b.width)
BottomEdge(b) == RAdd(b.y, b.height)

\* C31: after a pointer-move of a resize the side or corner opposite to the
\* handle is where it was at pointer-down: the e and w handles leave y and
\* height, the n and s handles leave x and width; without w the left edge,
\* with w the right edge, without n the top edge, with n the bottom edge
\* keeps its pointer-down value.
C31_Step ==
  (UserStep("handleMouseMove") /\ ResizeBranch)
  => \A k \in 1 .. Len(layers') :
       layers'[k].id = selectedId
       => LET l == layers'[k]
              h == resizeHandle
          IN  /\ h \in {"e", "w"} => (l.y = resizeStart.y /\ l.height = resizeStart.height)
              /\ h \in {"n", "s"} => (l.x = resizeStart.x /\ l.width = resizeStart.width)
              /\ IF HasW(h) THEN RightEdge(l) = RightEdge(resizeStart)
                 ELSE l.x = resizeStart.x
              /\ IF HasN(h) THEN BottomEdge(l) = BottomEdge(resizeStart)
                 ELSE l.y = resizeStart.y

C31_OppositeSideFixed == [][C31_Step]_vars

\* A resize on a corner handle with n is under way and a pointer-move has
\* changed the height of the layer and moved its top edge.
C31_Witness ==
  /\ ResizeBranch /\ resizeHandle \in {"nw", "ne"}
  /\ lastUserOp.name = "handleMouseMove"
  /\ \E k \in 1 .. Len(layers) :
       /\ layers[k].id = selectedId
       /\ layers[k].height # resizeStart.height
       /\ layers[k].y # resizeStart.y
       /\ BottomEdge(layers[k]) = BottomEdge(resizeStart)

\* Idle: no layer drag, no resize, no guide drag, no pending checkpoint.
Idle ==
  /\ ~isDragging
  /\ ~isResizing
  /\ resizeHandle = Null
  /\ draggingGuide = Null
  /\ pendingUndoState = NoPending

\* C32: after a pointer-up or pointer-leave on the canvas the interaction
\* state is Idle; a pointer-up that arrives while no layer drag and no resize
\* is active (Idle, or a guide drag) adds no history entry.
C32_Step ==
  UserStep("handleMouseUp")
  => /\ Idle'
     /\ ~GestureActive => history' = history

C32_PointerUpGoesIdle == [][C32_Step]_vars

\* A pointer-up has ended a guide drag that moved the guide.
C32_Witness ==
  /\ lastUserOp.name = "handleMouseUp"
  /\ ~lastUserOp.committed
  /\ Idle
  /\ \E g \in GuideNames :
       guides[g] \notin {<<1, 5>>, <<1, 2>>, <<4, 5>>, <<33, 100>>, <<67, 100>>}

\* C33: outside a wizard pass a layer later in the sequence is painted above
\* every earlier one, whichever layer is selected; during a wizard pass the
\* layer being marked is painted above all other layers.
C33_PaintOrder ==
  IF ModalShown
  THEN \A i \in Indices : i # alignModalLayerIndex => PaintedAbove(alignModalLayerIndex, i)
  ELSE \A i \in Indices, j \in Indices : i < j => PaintedAbove(j, i)

\* The spans of a layer's own marks on the canvas, through the mapper at the
\* layer's geometry.
CanvasEyeSpan(layer) ==
  RSub(imageToCanvas(layer, RefsOf(layer).eyeRightX, RefsOf(layer).eyeRightY).x,
       imageToCanvas(layer, RefsOf(layer).eyeLeftX, RefsOf(layer).eyeLeftY).x)

CanvasFaceSpan(layer) ==
  RSub(imageToCanvas(layer, <<1, 2>>, RefsOf(layer).faceBottomY).y,
       imageToCanvas(layer, <<1, 2>>, RefsOf(layer).bodyTopY).y)

BoxWider(layer) == RatioGt(layer.width, layer.height, layer.aspectRatio)
BoxAtRatio(layer) == layer.width = RMul(layer.height, layer.aspectRatio)

\* C34 as stated: after runAutoAlign every layer after the reference that
\* was not skipped has the reference's eye span and the reference's face span
\* on the canvas.
C34_Step ==
  UserStep("runAutoAlign")
  => \A k \in 2 .. Len(layers') :
       ~OwnMarksDegenerate(layers[k])
       => /\ CanvasEyeSpan(layers'[k]) = CanvasEyeSpan(layers[1])
          /\ CanvasFaceSpan(layers'[k]) = CanvasFaceSpan(layers[1])

C34_BothSpansMatch == [][C34_Step]_vars

\* C34, amended: the image is drawn with one scale, so one span matches: the
\* face span when the solved box is wider than the image, the eye span when
\* it is not, and both when the solved box has the layer's aspectRatio.
C34_AmendedStep ==
  UserStep("runAutoAlign")
  => \A k \in 2 .. Len(layers') :
       ~OwnMarksDegenerate(layers[k])
       => /\ ~BoxWider(layers'[k])
             => CanvasEyeSpan(layers'[k]) = CanvasEyeSpan(layers[1])
          /\ (BoxWider(layers'[k]) \/ BoxAtRatio(layers'[k]))
             => CanvasFaceSpan(layers'[k]) = CanvasFaceSpan(layers[1])

C34_LimitingSpanMatches == [][C34_AmendedStep]_vars

\* An alignment has put a layer into a box wider than its image: its face
\* span is the reference's and its eye span is not.
C34_Witness ==
  /\ AlignRan
  /\ \E k \in 2 .. Len(layers) :
       /\ ~OwnMarksDegenerate(layers[k])
       /\ ~SameGeometry(layers[k], preMutation[k])
       /\ BoxWider(layers[k])
       /\ CanvasFaceSpan(layers[k]) = CanvasFaceSpan(layers[1])
       /\ CanvasEyeSpan(layers[k]) # CanvasEyeSpan(layers[1])

\* The sequence b holds the layers of the sequence a, each one once and with
\* every field as it was.
Permuted(a, b) ==
  /\ Len(a) = Len(b)
  /\ \E p \in [1 .. Len(a) -> 1 .. Len(a)] :
       /\ \A i \in 1 .. Len(a), j \in 1 .. Len(a) : i # j => p[i] # p[j]
       /\ \A i \in 1 .. Len(a) : b[i] = a[p[i]]

\* C35: moving a layer up or down swaps it with its neighbour and leaves every
\* other position alone, and dropping a panel row reorders by permuting the
\* sequence; a move beyond the first or the last position and a reorder from
\* an index to itself change neither the sequence nor the history.
C35_Step ==
  /\ \A index \in Indices, direction \in {"up", "down"} :
       handleMoveLayer(index, direction)
       => LET newIndex == IF direction = "up" THEN index + 1 ELSE index - 1
          IN  IF newIndex < 0 \/ newIndex >= Len(layers)
              THEN layers' = layers /\ history' = history
              ELSE /\ Len(layers') = Len(layers)
                   /\ At(layers', index) = At(layers, newIndex)
                   /\ At(layers', newIndex) = At(layers, index)
                   /\ \A i \in Indices \ {index, newIndex} : At(layers', i) = At(layers, i)
  /\ \A layerId \in LayerIds(layers), targetIndex \in Indices :
       handleLayerDrop(layerId, targetIndex)
       => /\ Permuted(layers, layers')
          /\ FindIndex(layers, layerId) = targetIndex
             => (layers' = layers /\ history' = history)

C35_ReorderPermutes == [][C35_Step]_vars

\* A panel row was dropped on another row and the two layers changed places.
C35_Witness ==
  /\ lastUserOp.name = "handleLayerDrop" /\ lastUserOp.committed
  /\ Len(layers) = 2
  /\ layers[1] # layers[2]
  /\ layers = <<preMutation[2], preMutation[1]>>

\* The manipulation modes that are active.
ActiveModes ==
  (IF isDragging THEN {"drag"} ELSE {})
    \cup (IF isResizing THEN {"resize"} ELSE {})
    \cup (IF draggingGuide # Null THEN {"guide"} ELSE {})

\* C36: in every reachable state at most one of layer drag, resize and guide
\* drag is active, in whatever order pointer-downs and pointer-ups arrive,
\* and a pending checkpoint is held only while a layer drag or a resize is
\* active.
C36_OneModeAtATime ==
  /\ Cardinality(ActiveModes) <= 1
  /\ pendingUndoState # NoPending => (isDragging \/ isResizing)

\* C37: while the alignment wizard is open its position is valid: the step
\* is in 0 .. 4 and the layer index is smaller than the number of layers of
\* the sequence, also after an undo that shortens the sequence.
C37_WizardPositionValid ==
  alignModalOpen
  => /\ alignModalStep \in 0 .. 4
     /\ alignModalLayerIndex < Len(layers)

\* Every decode correction and every layout pass that was scheduled has run.
AllSettled == decodePending = <<>> /\ layoutPending = 0

\* The layer is as high as 0.8 of the canvas, as wide as its height times its
\* decoded aspectRatio, and centered in the canvas.
AtLayout(l) ==
  /\ l.aspectRatio \in ImageRatios
  /\ l.height = RMul(CanvasH, LayoutFraction)
  /\ l.width = RMul(l.height, l.aspectRatio)
  /\ l.x = RHalf(RSub(CanvasW, l.width))
  /\ l.y = RHalf(RSub(CanvasH, l.height))

\* C38: once the decode correction and the deferred layout pass of the added
\* layers have both run, in either order and with nothing but adds in
\* between, every layer is at its layout geometry.
C38_DecodeAndLayoutCommute ==
  AllSettled => \A k \in 1 .. Len(layers) : AtLayout(layers[k])

\* Two layers were added, and the corrections of both and the layout pass
\* have run.
C38_Witness ==
  /\ AllSettled
  /\ Len(layers) = 2
  /\ lastUserOp.name = "onload"
  /\ \A k \in 1 .. Len(layers) : AtLayout(layers[k])

\* The sequence is what a run of runAutoAlign made of the sequence before the
\* last committed mutation, and the wizard has been opened again since.
Realigning ==
  /\ lastUserOp.name = "handleAutoAlignClick"
  /\ Len(preMutation) >= 2
  /\ layers = [k \in 1 .. Len(preMutation) |->
                 Aligned(preMutation[k], k - 1, RefFrame(preMutation[1]))]

\* C39: a second run of runAutoAlign right after a first one gives every
\* layer the geometry the first run gave it, although the layers start the
\* second run from another geometry, and adds one history entry.
C39_Step ==
  (UserStep("runAutoAlign") /\ Realigning)
  => /\ layers' = layers
     /\ history' = PushOf(history, layers)

C39_AlignIdempotent == [][C39_Step]_vars

\* The alignment ran twice: the first run moved a layer, the second run
\* started from the result of the first and left it as it was.
C39_Witness ==
  /\ AlignRan
  /\ ops = 0
  /\ preMutation = layers
  /\ history[Len(history)] = layers
  /\ history[Len(history) - 1] # layers

\* The box of a layer.
Geometry(l) == <<l.x, l.y, l.width, l.height>>

\* The last event was an add that appended layers to the sequence preMutation.
JustAdded ==
  /\ lastUserOp.name = "addImages"
  /\ lastUserOp.committed
  /\ Len(layers) > Len(preMutation)

\* An add of accepted files keeps the earlier layers, in their order and with
\* their boxes, and appends the new layers in file order.
C40_AppendStep ==
  (UserStep("addImages") /\ lastUserOp'.committed)
  => /\ Len(layers') > Len(layers)
     /\ SubSeq(layers', 1, Len(layers)) = layers
     /\ \A k \in 1 .. Len(layers') - Len(layers) :
          layers'[Len(layers) + k].id[2] = k - 1

\* An add with no accepted file changes neither the sequence nor the history.
C40_EmptyStep ==
  (UserStep("addImages") /\ ~lastUserOp'.committed)
  => /\ layers' = layers
     /\ history' = history

\* The layout pass that an add triggered leaves the box of every layer that
\* was in the sequence before the add as it was.
C40_LayoutStep ==
  (JustAdded /\ layoutPending' < layoutPending)
  => \A k \in 1 .. Len(preMutation) :
       Geometry(layers'[k]) = Geometry(preMutation[k])

\* C40: adding layers appends one layer per accepted file at the end of the
\* sequence, in file order, and leaves x, y, width and height of every layer
\* that was already in the sequence unchanged, also after the layout pass
\* that the added layers triggered has run; an add with no accepted file
\* changes neither the sequence nor the history.
C40_Step ==
  /\ C40_AppendStep
  /\ C40_EmptyStep
  /\ C40_LayoutStep

C40_AddKeepsEarlierLayers == [][C40_Step]_vars

C40_AddAppends == [][C40_AppendStep /\ C40_EmptyStep]_vars

====
